---------------------------- MODULE Spec2Model ----------------------------
(***************************************************************************)
(* GeeOS boot-time memory subsystem (src/src/memory.c): Multiboot2 memory  *)
(* map reader, bitmap frame allocator, two-level paging, kernel heap.      *)
(*                                                                         *)
(* Physical memory is one word-addressed store `mem` (byte address of a    *)
(* 32-bit little-endian word -> its value).  The frame bitmap, the page    *)
(* directories and tables and the heap block headers all live in it at the *)
(* addresses the code computes, so anything the code aliases is aliased    *)
(* here as well.  A word holding a value >= 2^31 is kept in two's          *)
(* complement (TLC integers are 32 bits wide); addresses, sizes and        *)
(* lengths chosen as inputs stay below 2^31.                               *)
(***************************************************************************)
EXTENDS Integers, Sequences, FiniteSets, TLC

VARIABLES
    mbi,                    \* the Multiboot2 information buffer handed over by the boot loader (words)
    junk,                   \* what a word of RAM holds before the kernel first writes it
    mem,                    \* physical memory written so far: word address -> value
    usable_memory_regions,  \* MemoryRegion usable_memory_regions[MAX_MEMORY_REGIONS]
    usable_region_count,
    memory_start,
    total_pages,
    bitmap_size_bytes,
    page_bitmap,
    page_directory,
    heap_current,
    free_list,
    cr3,                    \* translation root register
    cr0_pg,                 \* PG bit of CR0
    pc,                     \* position of kernel_main / setup_paging
    calls                   \* the calls made so far, oldest first: [op, arg, ret, how]

vars == <<mbi, junk, mem, usable_memory_regions, usable_region_count, memory_start,
          total_pages, bitmap_size_bytes, page_bitmap, page_directory, heap_current,
          free_list, cr3, cr0_pg, pc, calls>>

-----------------------------------------------------------------------------
(* Program constants *)

PAGE_SIZE == 4096
MAX_MEMORY_REGIONS == 32
PAGE_PRESENT == 1
PAGE_WRITABLE == 2
PAGE_USER == 4
KERNEL_HEAP_SIZE == 1048576
PT_ENTRIES == 1024
HEADER_SIZE == 8
MMAP_TAG_TYPE == 6
MMAP_AVAILABLE == 1
MMAP_ENTRY_BYTES == 24

\* &kernel_end: the linker script starts the image at 1 MiB and page-aligns
\* the end of .bss; the image holds a 16 KiB stack, so it ends a few frames up.
kernel_end == 1073152

\* `. = 1M` in the linker script: the address the image is loaded at
kernel_start == 1048576

KERNEL_HEAP_START == kernel_end
KERNEL_HEAP_END == KERNEL_HEAP_START + KERNEL_HEAP_SIZE

\* NULL
NULL == 0

-----------------------------------------------------------------------------
(* Bounds of the model *)

MaxEntries == 2       \* memory-map entries in the boot loader's buffer
MaxParseEntries == 3  \* memory-map entries in the buffers given to the reader alone
MaxFrameCalls == 4    \* alloc_page / free_page calls explored after boot
MaxHeapCalls == 4     \* kmalloc / kfree calls explored
MaxPagingCalls == 2   \* calls explored after setup_paging
MaxWideRegions == 3   \* usable regions with 64-bit bases given to init_physical_allocator
MaxScriptBlocks == 3  \* blocks allocated and then all freed before the calls explored
MaxFitCalls == 1      \* kmalloc / kfree calls explored after such a prelude
MaxArenaCalls == 3    \* kmalloc / kfree calls explored with sizes up to 2^32 - 1
MaxLongEntries == 34  \* memory-map entries in the buffers that reach the region capacity
MaxShareCalls == 2    \* calls explored after the kernel has mapped a page at 3 GiB

-----------------------------------------------------------------------------
(* 32-bit words *)

\* 2^31 and 2^20, written so that every intermediate value fits a TLC integer
Two31m1 == 2147483647

\* the low 31 bits of a word kept in two's complement
Low31(w) == IF w >= 0 THEN w ELSE (w + Two31m1) + 1

TestBit(w, k) == IF k = 31 THEN w < 0 ELSE (Low31(w) \div (2 ^ k)) % 2 = 1

SetBit(w, k) ==
    IF TestBit(w, k) THEN w
    ELSE IF k = 31 THEN (w - Two31m1) - 1 ELSE w + 2 ^ k

ClearBit(w, k) ==
    IF ~TestBit(w, k) THEN w
    ELSE IF k = 31 THEN (w + Two31m1) + 1 ELSE w - 2 ^ k

\* a + b in uint32_t arithmetic, on words kept in two's complement
Add32(a, b) ==
    IF (a >= 0) # (b >= 0) THEN a + b
    ELSE IF a >= 0
    THEN (IF a > Two31m1 - b THEN ((a - Two31m1) - 1) + ((b - Two31m1) - 1) ELSE a + b)
    ELSE (IF Low31(a) > Two31m1 - Low31(b) THEN a + b ELSE Low31(a) + Low31(b))

\* a < b for uint32_t values kept in two's complement
ULess(a, b) == IF (a < 0) = (b < 0) THEN a < b ELSE b < 0

\* the set of bit positions set in a word, and the word with exactly those set
BitsOf(w) == {k \in 0 .. 31 : TestBit(w, k)}

RECURSIVE SumBits(_, _, _)
SumBits(B, lo, hi) ==
    IF lo = hi THEN (IF lo \in B THEN 2 ^ lo ELSE 0)
    ELSE LET mid == (lo + hi) \div 2 IN SumBits(B, lo, mid) + SumBits(B, mid + 1, hi)

WordOf(B) ==
    IF 31 \in B THEN (SumBits(B, 0, 30) - Two31m1) - 1 ELSE SumBits(B, 0, 30)

\* w | mask and w & ~mask, for the mask with the bits of K set
SetBitsOf(w, K) == WordOf(BitsOf(w) \cup K)

ClearBitsOf(w, K) == WordOf(BitsOf(w) \ K)

\* x & ~0xFFF and x & 0xFFF
PageBase(x) == x - (x % PAGE_SIZE)
PageFlags(x) == x % PAGE_SIZE

\* flags | PAGE_PRESENT, for flags made of the low three flag bits
OrPresent(flags) == IF flags % 2 = 1 THEN flags ELSE flags + PAGE_PRESENT

\* (addr & ~0xFFF) | flags | PAGE_PRESENT
MakeEntry(addr, flags) == PageBase(addr) + OrPresent(flags)

\* a size taken as it is, without rounding
ALIGN8_none(x) == x

\* ALIGN8(x) = ((x) + 7) & ~7
ALIGN8(x) == LET y == Add32(x, 7) IN y - (Low31(y) % 8)

\* ((uint32_t)a - (uint32_t)b) / PAGE_SIZE in unsigned 32-bit arithmetic, for
\* a, b < 2^31: a difference that wraps below zero becomes 2^32 - (b - a)
SubDivPage(a, b) ==
    IF a >= b THEN (a - b) \div PAGE_SIZE
    ELSE 1048576 - (((b - a) + (PAGE_SIZE - 1)) \div PAGE_SIZE)

-----------------------------------------------------------------------------
(* Physical memory *)

Read(m, a) == IF a \in DOMAIN m THEN m[a] ELSE junk

Write(m, a, v) == IF a \in DOMAIN m THEN [m EXCEPT ![a] = v] ELSE (a :> v) @@ m

\* for (i = 0; i < 1024; i++) p[i] = 0
ZeroPage(m, p) ==
    LET W == {p + 4 * i : i \in 0 .. PT_ENTRIES - 1}
    IN  [a \in DOMAIN m \cup W |-> IF a \in W THEN 0 ELSE m[a]]

-----------------------------------------------------------------------------
(* Bitmap macros: the byte bitmap[(bit)/8] lies in the word at its address  *)
(* rounded down to 4, at bit position 8 * (address % 4) + bit % 8           *)

BitmapWord(bitmap, bit) ==
    LET b == bitmap + (bit \div 8) IN b - (b % 4)

BitmapPos(bitmap, bit) ==
    LET b == bitmap + (bit \div 8) IN 8 * (b % 4) + (bit % 8)

BITMAP_TEST(m, bitmap, bit) ==
    TestBit(Read(m, BitmapWord(bitmap, bit)), BitmapPos(bitmap, bit))

BITMAP_SET(m, bitmap, bit) ==
    LET a == BitmapWord(bitmap, bit)
    IN  Write(m, a, SetBit(Read(m, a), BitmapPos(bitmap, bit)))

BITMAP_CLEAR(m, bitmap, bit) ==
    LET a == BitmapWord(bitmap, bit)
    IN  Write(m, a, ClearBit(Read(m, a), BitmapPos(bitmap, bit)))

\* BITMAP_SET / BITMAP_CLEAR applied to every bit of S (a loop over S)
BitmapSetAll(m, bitmap, S) ==
    LET W == {BitmapWord(bitmap, i) : i \in S}
        K(a) == {BitmapPos(bitmap, i) : i \in {j \in S : BitmapWord(bitmap, j) = a}}
    IN  [a \in DOMAIN m \cup W |->
            IF a \in W THEN SetBitsOf(Read(m, a), K(a)) ELSE m[a]]

BitmapClearAll(m, bitmap, S) ==
    LET W == {BitmapWord(bitmap, i) : i \in S}
        K(a) == {BitmapPos(bitmap, i) : i \in {j \in S : BitmapWord(bitmap, j) = a}}
    IN  [a \in DOMAIN m \cup W |->
            IF a \in W THEN ClearBitsOf(Read(m, a), K(a)) ELSE m[a]]

-----------------------------------------------------------------------------
(* The Multiboot2 information buffer, as the boot loader lays it out:       *)
(* 8 bytes (total_size, reserved), then tags padded to 8 bytes; the memory  *)
(* map tag is {type 6, size, entry_size, entry_version} followed by         *)
(* entries {addr:8, len:8, type:4, reserved:4}; a tag of type 0 ends it.    *)

RECURSIVE Zeros(_)
Zeros(n) == IF n <= 0 THEN <<>> ELSE <<0>> \o Zeros(n - 1)

\* one memory_map_entry, padded to entry_size bytes
EntryWords(e, entry_size) ==
    <<e.addr, 0, e.len, 0, e.type, 0>> \o Zeros((entry_size - MMAP_ENTRY_BYTES) \div 4)

RECURSIVE EntriesWords(_, _)
EntriesWords(es, entry_size) ==
    IF es = <<>> THEN <<>>
    ELSE EntryWords(Head(es), entry_size) \o EntriesWords(Tail(es), entry_size)

\* a boot command line tag of 13 bytes (padded to 16) may precede the memory map
MultibootBuffer(es, entry_size, lead) ==
    LET tags == (IF lead THEN <<1, 13, 1651470960, 116>> ELSE <<>>)
                \o <<MMAP_TAG_TYPE, 16 + entry_size * Len(es), entry_size, 0>>
                \o EntriesWords(es, entry_size)
                \o <<0, 8>>
    IN  <<8 + 4 * Len(tags), 0>> \o tags

\* the 32-bit word at byte offset off of the buffer
WordAt(buf, off) == buf[(off \div 4) + 1]

\* a uint64_t field of the buffer: low word, high word (inputs keep the high word 0)
QuadAt(buf, off) ==
    IF WordAt(buf, off + 4) = 0 THEN WordAt(buf, off)
    ELSE WordAt(buf, off) + (WordAt(buf, off + 4) * 65536) * 65536

-----------------------------------------------------------------------------
(* parse_memory_map *)

\* an inner loop that stores every entry, whatever its type
RECURSIVE ParseEntries_any_type(_, _, _, _, _)
ParseEntries_any_type(buf, entry, tag_end, entry_size, regions) ==
    IF ~(entry < tag_end) THEN regions
    ELSE LET stored ==
                 IF Len(regions) < MAX_MEMORY_REGIONS
                 THEN Append(regions, [base   |-> QuadAt(buf, entry),
                                       length |-> QuadAt(buf, entry + 8)])
                 ELSE regions
         IN  ParseEntries_any_type(buf, entry + entry_size, tag_end, entry_size, stored)

\* an inner loop that stores every available entry, however many are stored
RECURSIVE ParseEntries_no_capacity(_, _, _, _, _)
ParseEntries_no_capacity(buf, entry, tag_end, entry_size, regions) ==
    IF ~(entry < tag_end) THEN regions
    ELSE LET stored ==
                 IF WordAt(buf, entry + 16) = MMAP_AVAILABLE
                 THEN Append(regions, [base   |-> QuadAt(buf, entry),
                                       length |-> QuadAt(buf, entry + 8)])
                 ELSE regions
         IN  ParseEntries_no_capacity(buf, entry + entry_size, tag_end, entry_size, stored)

\* the inner loop: while ((uint8_t*)entry < (uint8_t*)tag + tag->size)
RECURSIVE ParseEntries(_, _, _, _, _)
ParseEntries(buf, entry, tag_end, entry_size, regions) ==
    IF ~(entry < tag_end) THEN regions
    ELSE LET stored ==
                 IF WordAt(buf, entry + 16) = MMAP_AVAILABLE
                    /\ Len(regions) < MAX_MEMORY_REGIONS
                 THEN Append(regions, [base   |-> QuadAt(buf, entry),
                                       length |-> QuadAt(buf, entry + 8)])
                 ELSE regions
         IN  ParseEntries(buf, entry + entry_size, tag_end, entry_size, stored)

\* the outer loop: while (tag->type != 0)
RECURSIVE ParseTags(_, _, _)
ParseTags(buf, tag, regions) ==
    IF WordAt(buf, tag) = 0 THEN regions
    ELSE LET size == WordAt(buf, tag + 4)
             found ==
                 IF WordAt(buf, tag) = MMAP_TAG_TYPE
                 THEN ParseEntries(buf, tag + 16, tag + size, WordAt(buf, tag + 8), regions)
                 ELSE regions
         IN  ParseTags(buf, tag + ALIGN8(size), found)

\* usable_memory_regions after parse_memory_map(multiboot_info)
ParseMemoryMap(buf, regions) == ParseTags(buf, 8, regions)

-----------------------------------------------------------------------------
(* init_physical_allocator *)

MinOf(S) == CHOOSE x \in S : \A y \in S : x <= y
MaxOf(S) == CHOOSE x \in S : \A y \in S : x >= y

\* lines 30-41: the lowest base and the highest end over the regions
LowestBase(regions) ==
    MinOf({regions[i].base : i \in 1 .. Len(regions)})

HighestEnd(regions) ==
    MaxOf({0} \cup {regions[i].base + regions[i].length : i \in 1 .. Len(regions)})

\* lines 56-66: the page indexes the loop over the usable regions clears
UsableIndexes(regions, start, total) ==
    {ix \in UNION {
        {(((regions[i].base + k * PAGE_SIZE) - start) \div PAGE_SIZE) :
            k \in 0 .. ((regions[i].length + PAGE_SIZE - 1) \div PAGE_SIZE) - 1}
        : i \in 1 .. Len(regions)} : ix < total}

\* lines 69-77: the page indexes the loop over the bitmap's own storage sets
BitmapIndexes(bitmap, size_bytes, start, total) ==
    {ix \in {SubDivPage(bitmap + k * PAGE_SIZE, start) :
                k \in 0 .. ((size_bytes + PAGE_SIZE - 1) \div PAGE_SIZE) - 1} : ix < total}

\* page_bitmap = (&kernel_end + PAGE_SIZE - 1) & ~(PAGE_SIZE - 1)
BitmapAddress == PageBase(kernel_end + PAGE_SIZE - 1)

InitPhysicalAllocator(m, regions) ==
    LET start   == LowestBase(regions)
        total   == (HighestEnd(regions) - start) \div PAGE_SIZE
        bytes   == (total + 7) \div 8
        bitmap  == BitmapAddress
        allUsed == BitmapSetAll(m, bitmap, 0 .. total - 1)
        usable  == BitmapClearAll(allUsed, bitmap, UsableIndexes(regions, start, total))
        self    == BitmapSetAll(usable, bitmap, BitmapIndexes(bitmap, bytes, start, total))
    IN  [memory_start |-> start, total_pages |-> total, bitmap_size_bytes |-> bytes,
         page_bitmap |-> bitmap, mem |-> self]

-----------------------------------------------------------------------------
(* alloc_page / free_page *)

\* a scan that stops at the first index without testing its bit
FirstClear_untested(m) == 0

\* the index the scan of alloc_page stops at, or total_pages when every bit is set
FirstClear(m) ==
    IF \E i \in 0 .. total_pages - 1 : ~BITMAP_TEST(m, page_bitmap, i)
    THEN CHOOSE i \in 0 .. total_pages - 1 :
            /\ ~BITMAP_TEST(m, page_bitmap, i)
            /\ \A j \in 0 .. i - 1 : BITMAP_TEST(m, page_bitmap, j)
    ELSE total_pages

\* an alloc_page that returns the frame it found without setting its bit
AllocPage_unmarked(m) ==
    LET i == FirstClear(m)
    IN  IF i < total_pages
        THEN [mem |-> m, ret |-> memory_start + i * PAGE_SIZE, how |-> "found"]
        ELSE [mem |-> m, ret |-> 0, how |-> "exhausted"]

\* an alloc_page that counts frames from the page below memory_start
AllocPage_page_grid(m) ==
    LET i == FirstClear(m)
    IN  IF i < total_pages
        THEN [mem |-> BITMAP_SET(m, page_bitmap, i),
              ret |-> PageBase(memory_start) + i * PAGE_SIZE, how |-> "found"]
        ELSE [mem |-> m, ret |-> 0, how |-> "exhausted"]

\* alloc_page(): memory afterwards, the value returned, and whether it came
\* from the return inside the loop (line 89) or the one after it (line 92)
AllocPage(m) ==
    LET i == FirstClear(m)
    IN  IF i < total_pages
        THEN [mem |-> BITMAP_SET(m, page_bitmap, i),
              ret |-> memory_start + i * PAGE_SIZE, how |-> "found"]
        ELSE [mem |-> m, ret |-> 0, how |-> "exhausted"]

\* the page index free_page computes for addr
FreeIndex(addr) == SubDivPage(addr, memory_start)

\* a free_page that flips the bit instead of clearing it
FreePage_toggle(m, addr) ==
    IF FreeIndex(addr) < total_pages
    THEN IF BITMAP_TEST(m, page_bitmap, FreeIndex(addr))
         THEN BITMAP_CLEAR(m, page_bitmap, FreeIndex(addr))
         ELSE BITMAP_SET(m, page_bitmap, FreeIndex(addr))
    ELSE m

\* a free_page that also accepts the index total_pages
FreePage_off_by_one(m, addr) ==
    IF FreeIndex(addr) <= total_pages
    THEN BITMAP_CLEAR(m, page_bitmap, FreeIndex(addr))
    ELSE m

\* free_page(addr): memory afterwards
FreePage(m, addr) ==
    IF FreeIndex(addr) < total_pages
    THEN BITMAP_CLEAR(m, page_bitmap, FreeIndex(addr))
    ELSE m

-----------------------------------------------------------------------------
(* Inputs *)

\* memory-map entries the boot loader may report: RAM at 0, RAM with a base
\* and a length off the page grid, RAM around the end of the kernel image,
\* RAM above a hole, and a reserved range
EntryChoices ==
    { [addr |-> 0,       len |-> 8192,  type |-> MMAP_AVAILABLE],
      [addr |-> 6144,    len |-> 10240, type |-> MMAP_AVAILABLE],
      [addr |-> 1069056, len |-> 12288, type |-> MMAP_AVAILABLE],
      [addr |-> 12288,   len |-> 6144,  type |-> MMAP_AVAILABLE],
      [addr |-> 8192,    len |-> 4096,  type |-> 2] }

EntryListsUpTo(n) == UNION {[1 .. k -> EntryChoices] : k \in 0 .. n}

EntryLists == EntryListsUpTo(MaxEntries)

\* a machine that has loaded the kernel reports some available RAM; the boot
\* loader lists the entries by ascending address (init_physical_allocator
\* takes a minimum and a maximum over them, the order is tried in SpecParse)
BootLists ==
    {es \in EntryLists :
        /\ \E i \in 1 .. Len(es) : es[i].type = MMAP_AVAILABLE
        /\ \A i \in 1 .. Len(es) - 1 : es[i].addr < es[i + 1].addr}

EmptyMem == [a \in {} |-> 0]

InitWith(lists, entry_sizes, leads, junks) ==
    /\ \E es \in lists, entry_size \in entry_sizes, lead \in leads :
           mbi = MultibootBuffer(es, entry_size, lead)
    /\ junk \in junks
    /\ mem = EmptyMem
    /\ usable_memory_regions = <<>>
    /\ usable_region_count = 0
    /\ memory_start = 0
    /\ total_pages = 0
    /\ bitmap_size_bytes = 0
    /\ page_bitmap = NULL
    /\ page_directory = NULL
    /\ heap_current = KERNEL_HEAP_START
    /\ free_list = NULL
    /\ cr3 = 0
    /\ cr0_pg = FALSE
    /\ pc = "start"
    /\ calls = <<>>

Init == InitWith(BootLists, {MMAP_ENTRY_BYTES}, {FALSE}, {0, Two31m1})

-----------------------------------------------------------------------------
(* kernel_main: parse_memory_map, init_physical_allocator, setup_paging *)

parse_memory_map ==
    /\ pc = "start"
    /\ usable_memory_regions' = ParseMemoryMap(mbi, usable_memory_regions)
    /\ usable_region_count' = Len(usable_memory_regions')
    /\ pc' = "parsed"
    /\ UNCHANGED <<mbi, junk, mem, memory_start, total_pages, bitmap_size_bytes,
                   page_bitmap, page_directory, heap_current, free_list, cr3,
                   cr0_pg, calls>>

init_physical_allocator ==
    /\ pc = "parsed"
    /\ LET r == InitPhysicalAllocator(mem, usable_memory_regions)
       IN  /\ memory_start' = r.memory_start
           /\ total_pages' = r.total_pages
           /\ bitmap_size_bytes' = r.bitmap_size_bytes
           /\ page_bitmap' = r.page_bitmap
           /\ mem' = r.mem
    /\ pc' = "allocator"
    /\ UNCHANGED <<mbi, junk, usable_memory_regions, usable_region_count,
                   page_directory, heap_current, free_list, cr3, cr0_pg, calls>>

-----------------------------------------------------------------------------
(* Address translation *)

\* vaddr >> 22 and (vaddr >> 12) & 0x3FF, for a vaddr kept in two's complement
PdIndex(vaddr) ==
    IF vaddr >= 0 THEN vaddr \div 4194304 ELSE 512 + (Low31(vaddr) \div 4194304)

PtIndex(vaddr) == (Low31(vaddr) \div PAGE_SIZE) % PT_ENTRIES

Present(entry) == TestBit(entry, 0)
Writable(entry) == TestBit(entry, 1)
UserOk(entry) == TestBit(entry, 2)

\* map_page_with_directory(pd, vaddr, paddr, flags): memory afterwards
MapPage(m, pd, vaddr, paddr, flags) ==
    LET slot  == pd + 4 * PdIndex(vaddr)
        entry == Read(m, slot)
        fresh == AllocPage(m)
        table == IF Present(entry) THEN PageBase(entry) ELSE fresh.ret
        m1    == IF Present(entry) THEN m
                 ELSE Write(ZeroPage(fresh.mem, table), slot, MakeEntry(table, flags))
    IN  Write(m1, table + 4 * PtIndex(vaddr), MakeEntry(paddr, flags))

\* whether map_page_with_directory would take a frame for a new table
NeedsTable(m, pd, vaddr) == ~Present(Read(m, pd + 4 * PdIndex(vaddr)))

\* setup_paging, line 193 and lines 196-199
ZeroDirectory(m) == ZeroPage(m, page_directory)

\* iterations lo .. hi (hi >= lo) of the loop of lines 196-199, each on the
\* memory the one before left
RECURSIVE IdentityMapRange(_, _, _)
IdentityMapRange(m, lo, hi) ==
    IF lo = hi
    THEN MapPage(m, page_directory, lo * PAGE_SIZE, lo * PAGE_SIZE, PAGE_WRITABLE)
    ELSE LET mid  == (lo + hi) \div 2
             half == IdentityMapRange(m, lo, mid)
         IN  IF DOMAIN half = {} THEN half ELSE IdentityMapRange(half, mid + 1, hi)

IdentityMap(m) == IdentityMapRange(m, 0, (4194304 \div PAGE_SIZE) - 1)

\* the two-level walk the processor makes for vaddr through the directory pd
DirEntry(m, pd, vaddr) == Read(m, pd + 4 * PdIndex(vaddr))

TableEntry(m, pd, vaddr) ==
    Read(m, PageBase(DirEntry(m, pd, vaddr)) + 4 * PtIndex(vaddr))

Mapped(m, pd, vaddr) ==
    Present(DirEntry(m, pd, vaddr)) /\ Present(TableEntry(m, pd, vaddr))

Translate(m, pd, vaddr) ==
    PageBase(TableEntry(m, pd, vaddr)) + (Low31(vaddr) % PAGE_SIZE)

\* iterations lo .. hi (hi >= lo) of the copy loop of lines 303-305
RECURSIVE CopyKernelEntries(_, _, _, _)
CopyKernelEntries(m, new_pd, lo, hi) ==
    IF lo = hi
    THEN Write(m, new_pd + 4 * lo, Read(m, page_directory + 4 * lo))
    ELSE LET mid  == (lo + hi) \div 2
             half == CopyKernelEntries(m, new_pd, lo, mid)
         IN  IF DOMAIN half = {} THEN half ELSE CopyKernelEntries(half, new_pd, mid + 1, hi)

\* create_user_page_directory(): memory afterwards and the pointer returned
CreateUserPageDirectory(m) ==
    LET fresh  == AllocPage(m)
        new_pd == fresh.ret
    IN  IF new_pd = NULL THEN [mem |-> fresh.mem, ret |-> NULL]
        ELSE [mem |-> CopyKernelEntries(ZeroPage(fresh.mem, new_pd), new_pd, 768, PT_ENTRIES - 1),
              ret |-> new_pd]

-----------------------------------------------------------------------------
(* kmalloc / kfree: a BlockHeader is {size at +0, next at +4}                *)

\* a walk that passes over blocks of exactly the size asked for
RECURSIVE Walk_strict(_, _, _, _, _)
Walk_strict(m, size, prev, curr, seen) ==
    IF curr = NULL THEN [how |-> "none"]
    ELSE IF ULess(size, Read(m, curr)) THEN [how |-> "fit", prev |-> prev, curr |-> curr]
    ELSE IF curr \in seen THEN [how |-> "hang"]
    ELSE Walk_strict(m, size, curr, Read(m, curr + 4), seen \cup {curr})

\* the free-list walk of kmalloc from curr (prev before it) for an aligned
\* size; seen holds the blocks already passed, so a walk that comes back to
\* one of them without a fit never ends
RECURSIVE Walk(_, _, _, _, _)
Walk(m, size, prev, curr, seen) ==
    IF curr = NULL THEN [how |-> "none"]
    ELSE IF ~ULess(Read(m, curr), size) THEN [how |-> "fit", prev |-> prev, curr |-> curr]
    ELSE IF curr \in seen THEN [how |-> "hang"]
    ELSE Walk(m, size, curr, Read(m, curr + 4), seen \cup {curr})

\* a kmalloc that carves a new block without moving the cursor past it
KMalloc_cursor_kept(m, fl, cursor, size) ==
    LET sz   == ALIGN8(size)
        w    == Walk(m, sz, NULL, fl, {})
        total_size == Add32(HEADER_SIZE, sz)
    IN  IF w.how = "fit"
        THEN [mem |-> IF w.prev # NULL
                      THEN Write(m, w.prev + 4, Read(m, w.curr + 4)) ELSE m,
              free_list |-> IF w.prev # NULL THEN fl ELSE Read(m, w.curr + 4),
              heap_current |-> cursor, ret |-> w.curr + HEADER_SIZE, how |-> "reused"]
        ELSE IF w.how = "hang"
        THEN [mem |-> m, free_list |-> fl, heap_current |-> cursor, ret |-> NULL,
              how |-> "hang"]
        ELSE IF ULess(KERNEL_HEAP_END, Add32(cursor, total_size))
        THEN [mem |-> m, free_list |-> fl, heap_current |-> cursor, ret |-> NULL,
              how |-> "exhausted"]
        ELSE [mem |-> Write(m, cursor, sz), free_list |-> fl,
              heap_current |-> cursor, ret |-> cursor + HEADER_SIZE,
              how |-> "carved"]

\* a kmalloc that stores the size as requested in the header of a new block
KMalloc_raw_header(m, fl, cursor, size) ==
    LET sz   == ALIGN8(size)
        w    == Walk(m, sz, NULL, fl, {})
        total_size == Add32(HEADER_SIZE, sz)
    IN  IF w.how = "fit"
        THEN [mem |-> IF w.prev # NULL
                      THEN Write(m, w.prev + 4, Read(m, w.curr + 4)) ELSE m,
              free_list |-> IF w.prev # NULL THEN fl ELSE Read(m, w.curr + 4),
              heap_current |-> cursor, ret |-> w.curr + HEADER_SIZE, how |-> "reused"]
        ELSE IF w.how = "hang"
        THEN [mem |-> m, free_list |-> fl, heap_current |-> cursor, ret |-> NULL,
              how |-> "hang"]
        ELSE IF ULess(KERNEL_HEAP_END, Add32(cursor, total_size))
        THEN [mem |-> m, free_list |-> fl, heap_current |-> cursor, ret |-> NULL,
              how |-> "exhausted"]
        ELSE [mem |-> Write(m, cursor, size), free_list |-> fl,
              heap_current |-> Add32(cursor, total_size), ret |-> cursor + HEADER_SIZE,
              how |-> "carved"]

\* kmalloc(size): memory, free list and cursor afterwards, the pointer returned
KMalloc(m, fl, cursor, size) ==
    LET sz   == ALIGN8(size)
        w    == Walk(m, sz, NULL, fl, {})
        total_size == Add32(HEADER_SIZE, sz)
    IN  IF w.how = "fit"
        THEN [mem |-> IF w.prev # NULL
                      THEN Write(m, w.prev + 4, Read(m, w.curr + 4)) ELSE m,
              free_list |-> IF w.prev # NULL THEN fl ELSE Read(m, w.curr + 4),
              heap_current |-> cursor, ret |-> w.curr + HEADER_SIZE, how |-> "reused"]
        ELSE IF w.how = "hang"
        THEN [mem |-> m, free_list |-> fl, heap_current |-> cursor, ret |-> NULL,
              how |-> "hang"]
        ELSE IF ULess(KERNEL_HEAP_END, Add32(cursor, total_size))
        THEN [mem |-> m, free_list |-> fl, heap_current |-> cursor, ret |-> NULL,
              how |-> "exhausted"]
        ELSE [mem |-> Write(m, cursor, sz), free_list |-> fl,
              heap_current |-> Add32(cursor, total_size), ret |-> cursor + HEADER_SIZE,
              how |-> "carved"]

\* a kfree that makes the block the head of the list without storing its next
KFree_no_link(m, fl, ptr) ==
    IF ptr = NULL THEN [mem |-> m, free_list |-> fl]
    ELSE [mem |-> m, free_list |-> ptr - HEADER_SIZE]

\* kfree(ptr): memory and free list afterwards
KFree(m, fl, ptr) ==
    IF ptr = NULL THEN [mem |-> m, free_list |-> fl]
    ELSE [mem |-> Write(m, (ptr - HEADER_SIZE) + 4, fl), free_list |-> ptr - HEADER_SIZE]

\* the blocks the free list reaches from fl, in order, each once
RECURSIVE FreeBlocks(_, _, _)
FreeBlocks(m, curr, seen) ==
    IF curr = NULL \/ curr \in seen THEN <<>>
    ELSE <<curr>> \o FreeBlocks(m, Read(m, curr + 4), seen \cup {curr})

-----------------------------------------------------------------------------
(* Calls: each appends [op, arg, ret, how] to `calls`; `how` names the path  *)
(* the call took through the function                                       *)

Call(op, arg, ret, how) == [op |-> op, arg |-> arg, ret |-> ret, how |-> how]

\* how many calls the model explores from the current position of kernel_main
CallBudget ==
    CASE pc = "allocator" -> MaxFrameCalls
      [] pc = "run"       -> MaxPagingCalls
      [] pc = "heap"      -> 2 * MaxScriptBlocks + MaxFitCalls
      [] pc = "arena"     -> MaxArenaCalls
      [] pc = "shared"    -> 1 + MaxShareCalls
      [] OTHER            -> MaxHeapCalls

\* the frame allocator is Initialized once init_physical_allocator has run
Initialized == pc \in {"allocator", "run"}

\* values returned so far by the calls of op
Returned(op) == {calls[i].ret : i \in {j \in 1 .. Len(calls) : calls[j].op = op}}

\* addresses handed to free_page: the first frame, an address inside the
\* second frame, the first address past the arena, and one below the arena
FreeArgs ==
    {memory_start, memory_start + PAGE_SIZE + 4, memory_start + total_pages * PAGE_SIZE}
    \cup (IF memory_start >= PAGE_SIZE THEN {memory_start - PAGE_SIZE} ELSE {})

alloc_page ==
    /\ Initialized
    /\ Len(calls) < CallBudget
    /\ LET r == AllocPage(mem)
       IN  /\ mem' = r.mem
           /\ calls' = Append(calls, Call("alloc_page", <<>>, r.ret, r.how))
    /\ UNCHANGED <<mbi, junk, usable_memory_regions, usable_region_count, memory_start,
                   total_pages, bitmap_size_bytes, page_bitmap, page_directory,
                   heap_current, free_list, cr3, cr0_pg, pc>>

free_page ==
    /\ Initialized
    /\ Len(calls) < CallBudget
    /\ \E addr \in FreeArgs :
           /\ mem' = FreePage(mem, addr)
           /\ calls' = Append(calls, Call("free_page", <<addr>>, 0,
                  IF ~(FreeIndex(addr) < total_pages) THEN "out_of_range"
                  ELSE IF BITMAP_TEST(mem, page_bitmap, FreeIndex(addr)) THEN "cleared"
                  ELSE "already_clear"))
    /\ UNCHANGED <<mbi, junk, usable_memory_regions, usable_region_count, memory_start,
                   total_pages, bitmap_size_bytes, page_bitmap, page_directory,
                   heap_current, free_list, cr3, cr0_pg, pc>>

\* setup_paging, in four steps: line 193, lines 196-199, line 202, lines 205-208
setup_paging_zero ==
    /\ pc = "allocator"
    /\ calls = <<>>
    /\ mem' = ZeroDirectory(mem)
    /\ pc' = "zeroed"
    /\ UNCHANGED <<mbi, junk, usable_memory_regions, usable_region_count, memory_start,
                   total_pages, bitmap_size_bytes, page_bitmap, page_directory,
                   heap_current, free_list, cr3, cr0_pg, calls>>

setup_paging_identity ==
    /\ pc = "zeroed"
    /\ mem' = IdentityMap(mem)
    /\ pc' = "mapped"
    /\ UNCHANGED <<mbi, junk, usable_memory_regions, usable_region_count, memory_start,
                   total_pages, bitmap_size_bytes, page_bitmap, page_directory,
                   heap_current, free_list, cr3, cr0_pg, calls>>

setup_paging_cr3 ==
    /\ pc = "mapped"
    /\ cr3' = page_directory
    /\ pc' = "loaded"
    /\ UNCHANGED <<mbi, junk, mem, usable_memory_regions, usable_region_count,
                   memory_start, total_pages, bitmap_size_bytes, page_bitmap,
                   page_directory, heap_current, free_list, cr0_pg, calls>>

setup_paging_cr0 ==
    /\ pc = "loaded"
    /\ cr0_pg' = TRUE
    /\ pc' = "run"
    /\ UNCHANGED <<mbi, junk, mem, usable_memory_regions, usable_region_count,
                   memory_start, total_pages, bitmap_size_bytes, page_bitmap,
                   page_directory, heap_current, free_list, cr3, calls>>

\* the directories a caller holds: the kernel's and those returned so far
Directories == {page_directory} \cup (Returned("create_user_page_directory") \ {NULL})

\* virtual addresses mapped by callers: a page of the identity range, the
\* first page past it, and the first page of the upper quarter (3 GiB, kept
\* in two's complement)
MapVaddrs == {4096, 4194304, -1073741824}

\* physical addresses mapped by callers: the second frame of the arena and an
\* address inside the third
MapPaddrs == {memory_start + PAGE_SIZE, memory_start + 2 * PAGE_SIZE + 20}

MapFlags == {PAGE_WRITABLE}

map_page_with_directory ==
    /\ pc \in {"run", "shared"}
    /\ Len(calls) < CallBudget
    /\ \E pd \in Directories, vaddr \in MapVaddrs, paddr \in MapPaddrs, flags \in MapFlags :
           /\ mem' = MapPage(mem, pd, vaddr, paddr, flags)
           /\ calls' = Append(calls, Call("map_page_with_directory",
                  <<pd, vaddr, paddr, flags>>, 0,
                  IF NeedsTable(mem, pd, vaddr) THEN "new_table" ELSE "existing"))
    /\ UNCHANGED <<mbi, junk, usable_memory_regions, usable_region_count, memory_start,
                   total_pages, bitmap_size_bytes, page_bitmap, page_directory,
                   heap_current, free_list, cr3, cr0_pg, pc>>

map_user_page ==
    /\ pc \in {"run", "shared"}
    /\ Len(calls) < CallBudget
    /\ \E user_pd \in Directories, vaddr \in MapVaddrs, paddr \in MapPaddrs :
           /\ mem' = MapPage(mem, user_pd, vaddr, paddr, PAGE_USER + PAGE_WRITABLE)
           /\ calls' = Append(calls, Call("map_user_page", <<user_pd, vaddr, paddr>>, 0,
                  IF NeedsTable(mem, user_pd, vaddr) THEN "new_table" ELSE "existing"))
    /\ UNCHANGED <<mbi, junk, usable_memory_regions, usable_region_count, memory_start,
                   total_pages, bitmap_size_bytes, page_bitmap, page_directory,
                   heap_current, free_list, cr3, cr0_pg, pc>>

create_user_page_directory ==
    /\ pc \in {"run", "shared"}
    /\ Len(calls) < CallBudget
    /\ LET r == CreateUserPageDirectory(mem)
       IN  /\ mem' = r.mem
           /\ calls' = Append(calls, Call("create_user_page_directory", <<>>, r.ret,
                                          IF r.ret = NULL THEN "null" ELSE "created"))
    /\ UNCHANGED <<mbi, junk, usable_memory_regions, usable_region_count, memory_start,
                   total_pages, bitmap_size_bytes, page_bitmap, page_directory,
                   heap_current, free_list, cr3, cr0_pg, pc>>

\* request sizes that reach the limits of the arena and of uint32_t: a small
\* one, KERNEL_HEAP_SIZE - 16 and - 8 (the largest that fits an empty arena),
\* one byte more, 0x7FFFFFFF, 0xFFFFFFF0 and 0xFFFFFFFF
ArenaSizes == {8, KERNEL_HEAP_SIZE - 16, KERNEL_HEAP_SIZE - 8, KERNEL_HEAP_SIZE - 7,
               Two31m1, -16, -1}

\* request sizes handed to kmalloc
HeapSizes == IF pc = "arena" THEN ArenaSizes ELSE {1, 7, 8, 9, 4096}

\* pointers handed to kfree: NULL and whatever kmalloc has returned so far
HeapPointers == {NULL} \cup Returned("kmalloc")

kmalloc ==
    /\ pc # "hung"
    /\ Len(calls) < CallBudget
    /\ \E size \in HeapSizes :
           LET r == KMalloc(mem, free_list, heap_current, size)
           IN  /\ mem' = r.mem
               /\ free_list' = r.free_list
               /\ heap_current' = r.heap_current
               /\ calls' = Append(calls, Call("kmalloc", <<size>>, r.ret, r.how))
               /\ pc' = IF r.how = "hang" THEN "hung" ELSE pc
    /\ UNCHANGED <<mbi, junk, usable_memory_regions, usable_region_count, memory_start,
                   total_pages, bitmap_size_bytes, page_bitmap, page_directory,
                   cr3, cr0_pg>>

kfree ==
    /\ pc # "hung"
    /\ Len(calls) < CallBudget
    /\ \E ptr \in HeapPointers :
           LET r == KFree(mem, free_list, ptr)
           IN  /\ mem' = r.mem
               /\ free_list' = r.free_list
               /\ calls' = Append(calls, Call("kfree", <<ptr>>, 0,
                                              IF ptr = NULL THEN "null" ELSE "pushed"))
    /\ UNCHANGED <<mbi, junk, usable_memory_regions, usable_region_count, memory_start,
                   total_pages, bitmap_size_bytes, page_bitmap, page_directory,
                   heap_current, cr3, cr0_pg, pc>>

-----------------------------------------------------------------------------
(* Specifications *)

\* the memory map reader on every buffer layout
ParseLists == EntryListsUpTo(MaxParseEntries)

EntrySizes == {MMAP_ENTRY_BYTES, 32}

InitParse == InitWith(ParseLists, EntrySizes, BOOLEAN, {0})

NextParse == parse_memory_map

SpecParse == InitParse /\ [][NextParse]_vars

\* boot up to init_physical_allocator, then alloc_page / free_page
NextFrame ==
    \/ parse_memory_map
    \/ init_physical_allocator
    \/ alloc_page
    \/ free_page

SpecFrame == Init /\ [][NextFrame]_vars

\* the heap alone: kmalloc / kfree from the state the image is loaded in
InitHeap == InitWith({<<>>}, {MMAP_ENTRY_BYTES}, {FALSE}, {0, Two31m1})

NextHeap ==
    \/ kmalloc
    \/ kfree

SpecHeap == InitHeap /\ [][NextHeap]_vars

\* the whole of kernel_main, then calls on the frame allocator and the
\* address space manager
PagingLists ==
    {es \in BootLists : Len(es) = 1}
    \cup {es \in BootLists : Len(es) = 2 /\ es[1].addr < 12288 /\ es[2].addr = 1069056}

InitPaging == InitWith(PagingLists, {MMAP_ENTRY_BYTES}, {FALSE}, {0, Two31m1})

NextPaging ==
    \/ parse_memory_map
    \/ init_physical_allocator
    \/ setup_paging_zero
    \/ setup_paging_identity
    \/ setup_paging_cr3
    \/ setup_paging_cr0
    \/ (pc = "run" /\ alloc_page)
    \/ (pc = "run" /\ free_page)
    \/ map_page_with_directory
    \/ map_user_page
    \/ create_user_page_directory

SpecPaging == InitPaging /\ [][NextPaging]_vars

-----------------------------------------------------------------------------
(* What a caller can observe *)

\* the call made last
LastCall == calls[Len(calls)]

\* this step is a call of op
Stepped(op) == Len(calls') = Len(calls) + 1 /\ calls'[Len(calls')].op = op

\* the positions in `calls` of the calls of op that took path how
CallsWhere(op, how) == {i \in 1 .. Len(calls) : calls[i].op = op /\ calls[i].how = how}

\* the frames whose bit is set in m
UsedFrames(m) == {i \in 0 .. total_pages - 1 : BITMAP_TEST(m, page_bitmap, i)}

\* the frames init_physical_allocator left marked used: all of them (lines
\* 51-53), less those of usable regions (56-66), plus the bitmap's own (69-77)
ReservedFrames ==
    ((0 .. total_pages - 1) \ UsableIndexes(usable_memory_regions, memory_start, total_pages))
    \cup BitmapIndexes(page_bitmap, bitmap_size_bytes, memory_start, total_pages)

\* the addresses alloc_page has handed out
Issued == {calls[i].ret : i \in CallsWhere("alloc_page", "found")}

-----------------------------------------------------------------------------
(* Frame allocator claims (SpecFrame) *)

C2_UsedIsAllocsMinusFrees ==
    Initialized
    => Cardinality(UsedFrames(mem))
         = Cardinality(CallsWhere("alloc_page", "found"))
           - Cardinality(CallsWhere("free_page", "cleared"))

\* C2 amended: the number of set bits equals the number init_physical_allocator
\* left set, plus the alloc_page calls that handed out a frame, minus the
\* free_page calls that cleared a set bit.
C2_UsedCount ==
    Initialized
    => Cardinality(UsedFrames(mem))
         = Cardinality(ReservedFrames)
           + Cardinality(CallsWhere("alloc_page", "found"))
           - Cardinality(CallsWhere("free_page", "cleared"))

\* C2 witness: frames were reserved at initialisation, and the calls include
\* an allocation, a free that cleared a bit and a free of a clear bit.
C2_Witness ==
    /\ Initialized
    /\ ReservedFrames # {}
    /\ CallsWhere("alloc_page", "found") # {}
    /\ CallsWhere("free_page", "cleared") # {}
    /\ CallsWhere("free_page", "already_clear") # {}

\* C3: with N frames in total, after N alloc_page calls that each handed out a
\* frame and no free_page, the next alloc_page returns 0 and 0 is none of the
\* addresses handed out.
C3_ExhaustionSignal ==
    ( /\ Initialized
      /\ Len(calls) = total_pages + 1
      /\ \A i \in 1 .. total_pages : calls[i].op = "alloc_page" /\ calls[i].how = "found"
      /\ LastCall.op = "alloc_page" )
    => /\ LastCall.ret = 0
       /\ LastCall.ret \notin {calls[i].ret : i \in 1 .. total_pages}

\* C3 witness: the arena is exhausted by as many alloc_page calls as it has
\* frames, and one more call has been made.
C3_Witness ==
    /\ Initialized
    /\ Len(calls) = total_pages + 1
    /\ \A i \in 1 .. total_pages : calls[i].op = "alloc_page" /\ calls[i].how = "found"
    /\ LastCall.op = "alloc_page"
    /\ LastCall.how = "exhausted"

\* C4: every address a handed out by alloc_page is on the grid of memory_start
\* and inside [memory_start, memory_start + total_pages * 4096).
C4_AllocOnGridInRange ==
    \A i \in CallsWhere("alloc_page", "found") :
        /\ (calls[i].ret - memory_start) % PAGE_SIZE = 0
        /\ memory_start <= calls[i].ret
        /\ calls[i].ret < memory_start + total_pages * PAGE_SIZE

\* C4 witness: memory_start is off the page grid and the last frame of the
\* arena has been handed out.
C4_Witness ==
    /\ Initialized
    /\ memory_start % PAGE_SIZE # 0
    /\ memory_start + (total_pages - 1) * PAGE_SIZE \in Issued

\* C5: free_page on a frame alloc_page handed out clears that frame's bit and
\* no other; called again on the same frame right away it changes nothing,
\* and the bit is still clear.
C5_DoubleFreeIsNoOp ==
    [][ (Stepped("free_page") /\ LastCall'.arg[1] \in Issued)
        => LET addr == LastCall'.arg[1]
           IN  /\ UsedFrames(mem') = UsedFrames(mem) \ {FreeIndex(addr)}
               /\ (calls # <<>> /\ LastCall.op = "free_page" /\ LastCall.arg[1] = addr)
                  => /\ mem' = mem
                     /\ FreeIndex(addr) \notin UsedFrames(mem') ]_vars

\* C5 witness: two free_page calls in a row on a frame that had been handed
\* out, with other frames in use.
C5_Witness ==
    /\ Len(calls) >= 3
    /\ LastCall.op = "free_page"
    /\ calls[Len(calls) - 1].op = "free_page"
    /\ calls[Len(calls) - 1].how = "cleared"
    /\ LastCall.arg = calls[Len(calls) - 1].arg
    /\ LastCall.arg[1] \in Issued
    /\ UsedFrames(mem) # {}

-----------------------------------------------------------------------------
(* Memory map reader claim (SpecParse) *)

\* the regions a list of memory-map entries should yield: the available ones,
\* in order, as {base, length}
AvailableRegions(es) ==
    LET av == SelectSeq(es, LAMBDA e : e.type = MMAP_AVAILABLE)
    IN  [i \in 1 .. Len(av) |-> [base |-> av[i].addr, length |-> av[i].len]]

\* C9: for a well-formed tag buffer, parse_memory_map stores exactly the
\* entries of type 1, with base and length unchanged, in encounter order, and
\* nothing for entries of any other type.
C9_StoresAvailableEntries ==
    pc = "parsed"
    => \A es \in ParseLists, entry_size \in EntrySizes, lead \in BOOLEAN :
           mbi = MultibootBuffer(es, entry_size, lead)
           => /\ usable_memory_regions = AvailableRegions(es)
              /\ usable_region_count = Len(AvailableRegions(es))

\* C9 witness: a buffer with an available entry, a reserved entry and another
\* available entry, behind a leading tag, has been read into two regions.
C9_Witness ==
    /\ pc = "parsed"
    /\ usable_region_count = 2
    /\ usable_memory_regions[1] # usable_memory_regions[2]
    /\ \E es \in ParseLists :
           /\ Len(es) = 3
           /\ es[2].type # MMAP_AVAILABLE
           /\ mbi = MultibootBuffer(es, 32, TRUE)

-----------------------------------------------------------------------------
(* Heap claims (SpecHeap) *)

\* C7: every non-NULL pointer kmalloc has returned, for sizes 1, 7, 8, 9 and
\* 4096 and after any earlier kmalloc / kfree calls, is a multiple of 8.
C7_KmallocAligned ==
    \A i \in 1 .. Len(calls) :
        (calls[i].op = "kmalloc" /\ calls[i].ret # NULL) => calls[i].ret % 8 = 0

\* C7 witness: kmalloc has returned pointers both carved behind a block of an
\* odd request size and taken from the free list.
C7_Witness ==
    /\ Len(calls) >= 3
    /\ calls[1].op = "kmalloc"
    /\ calls[1].arg[1] \in {1, 7, 9}
    /\ \E i \in CallsWhere("kmalloc", "carved") : i > 1
    /\ CallsWhere("kmalloc", "reused") # {}

\* C8: a kmalloc(s) that follows p = kmalloc(s), kfree(p) returns p and leaves
\* heap_current alone; and whenever kmalloc moves heap_current, no block of
\* the free list was large enough for the request.
C8_ReuseBeforeCarve ==
    [][ Stepped("kmalloc")
        => LET n    == Len(calls)
               size == LastCall'.arg[1]
           IN  /\ ( /\ n >= 2
                    /\ calls[n - 1].op = "kmalloc"
                    /\ calls[n - 1].ret # NULL
                    /\ calls[n - 1].arg[1] = size
                    /\ calls[n].op = "kfree"
                    /\ calls[n].arg[1] = calls[n - 1].ret )
                  => /\ LastCall'.ret = calls[n - 1].ret
                     /\ heap_current' = heap_current
               /\ heap_current' # heap_current
                  => \A k \in 1 .. Len(FreeBlocks(mem, free_list, {})) :
                         Read(mem, FreeBlocks(mem, free_list, {})[k]) < ALIGN8(size) ]_vars

\* C8 witness: after an earlier allocation, a block was allocated, freed and
\* allocated again with the same size, and came back at the same address.
C8_Witness ==
    /\ Len(calls) = 4
    /\ calls[1].how = "carved"
    /\ calls[2].op = "kmalloc"
    /\ calls[2].ret # NULL
    /\ calls[3].op = "kfree"
    /\ calls[3].arg[1] = calls[2].ret
    /\ calls[4].op = "kmalloc"
    /\ calls[4].arg = calls[2].arg
    /\ calls[4].ret = calls[2].ret
    /\ calls[4].how = "reused"

-----------------------------------------------------------------------------
(* Paging claims (SpecPaging) *)

\* v resolves to itself through the kernel directory, with PAGE_PRESENT and
\* PAGE_WRITABLE on the directory entry and on the table entry
IdentityMapped(m, v) ==
    /\ Present(DirEntry(m, page_directory, v))
    /\ Writable(DirEntry(m, page_directory, v))
    /\ Present(TableEntry(m, page_directory, v))
    /\ Writable(TableEntry(m, page_directory, v))
    /\ Translate(m, page_directory, v) = v

\* the first and the last byte of every page of [0, 4 MiB)
IdentityRange == {i * PAGE_SIZE + off : i \in 0 .. PT_ENTRIES - 1, off \in {0, PAGE_SIZE - 1}}

\* C6: once setup_paging has completed, every virtual address of [0, 4 MiB)
\* resolves through page_directory to the same physical address, with
\* PAGE_PRESENT and PAGE_WRITABLE on both entries used.
C6_IdentityMapped ==
    (pc = "run" /\ calls = <<>>) => \A v \in IdentityRange : IdentityMapped(mem, v)

\* C6 witness: setup_paging has completed on a machine whose lowest usable
\* region starts on a page boundary, and the last page of the range resolves.
C6_Witness ==
    /\ pc = "run"
    /\ calls = <<>>
    /\ memory_start % PAGE_SIZE = 0
    /\ IdentityMapped(mem, 4194304 - 1)

\* the physical pages that present table entries of directory pd point to
MappedTargets(m, pd) ==
    UNION { { PageBase(Read(m, PageBase(Read(m, pd + 4 * d)) + 4 * t)) :
                t \in {k \in 0 .. PT_ENTRIES - 1 :
                          Present(Read(m, PageBase(Read(m, pd + 4 * d)) + 4 * k))} } :
            d \in {k \in 0 .. PT_ENTRIES - 1 : Present(Read(m, pd + 4 * k))} }

\* the physical address paddr is a frame of the arena whose bit is clear
MarkedFree(m, paddr) ==
    /\ FreeIndex(paddr) < total_pages
    /\ ~BITMAP_TEST(m, page_bitmap, FreeIndex(paddr))

\* C10: after setup_paging and any alloc_page, free_page,
\* map_page_with_directory, map_user_page and create_user_page_directory
\* calls, no frame that a present page-table entry points to is marked free.
C10_MappedFramesAreUsed ==
    pc = "run"
    => \A pd \in Directories : \A paddr \in MappedTargets(mem, pd) : ~MarkedFree(mem, paddr)

\* C10 witness: paging is on, calls have been made, and the kernel directory
\* maps a frame of the arena whose bit is set.
C10_Witness ==
    /\ pc = "run"
    /\ calls # <<>>
    /\ \E paddr \in MappedTargets(mem, page_directory) :
           FreeIndex(paddr) < total_pages /\ ~MarkedFree(mem, paddr)

-----------------------------------------------------------------------------
(* Heap claims, continued (SpecHeap) *)

\* the blocks kmalloc has carved from the cursor so far (addresses of headers)
CarvedBlocks == {calls[i].ret - HEADER_SIZE : i \in CallsWhere("kmalloc", "carved")}

\* the blocks on the free list (addresses of headers)
FreeListBlocks ==
    {FreeBlocks(mem, free_list, {})[k] : k \in 1 .. Len(FreeBlocks(mem, free_list, {}))}

\* C11: the size field of every block kmalloc has carved, and of every block
\* on the free list, is a multiple of 8, after any kmalloc / kfree calls.
C11_BlockSizesAligned ==
    \A b \in CarvedBlocks \cup FreeListBlocks : Read(mem, b) % 8 = 0

\* C11 witness: blocks were carved for request sizes that are not multiples
\* of 8, and one of them is on the free list.
C11_Witness ==
    /\ \E i \in CallsWhere("kmalloc", "carved") :
           /\ calls[i].arg[1] % 8 # 0
           /\ calls[i].ret - HEADER_SIZE \in FreeListBlocks
    /\ \E i \in CallsWhere("kmalloc", "carved") : calls[i].arg[1] = 9
    /\ Cardinality(CarvedBlocks) >= 2

-----------------------------------------------------------------------------
(* Paging claims, continued (SpecPaging) *)

\* C12: a map_page_with_directory call that needs a new page table while the
\* frame allocator has no frame left installs no directory entry and writes
\* nothing (the function returns void: memory is all a caller can observe).
C12_MapFailsCleanly ==
    [][ ( /\ Stepped("map_page_with_directory")
          /\ NeedsTable(mem, LastCall'.arg[1], LastCall'.arg[2])
          /\ AllocPage(mem).how = "exhausted" )
        => mem' = mem ]_vars

\* C12 witness: on a machine whose arena does not start at address 0, every
\* frame is in use and map_page_with_directory has installed a directory
\* entry for a table at address 0, the value alloc_page returns at exhaustion.
C12_Witness ==
    /\ pc = "run"
    /\ calls # <<>>
    /\ LastCall.op = "map_page_with_directory"
    /\ LastCall.how = "new_table"
    /\ memory_start # 0
    /\ UsedFrames(mem) = 0 .. total_pages - 1
    /\ DirEntry(mem, LastCall.arg[1], LastCall.arg[2]) = MakeEntry(0, LastCall.arg[4])

\* C13: setup_paging zeroes the directory, then writes the 1024 identity
\* mappings, then loads CR3 with the directory, and only then sets CR0.PG;
\* when PG is set, CR3 points at a directory that maps every page of
\* [0, 4 MiB).
C13_PagingOrder ==
    [][ /\ (pc' = "mapped" /\ pc # "mapped") => pc = "zeroed"
        /\ (pc' = "loaded" /\ pc # "loaded") => (pc = "mapped" /\ cr3' = page_directory)
        /\ (cr0_pg' /\ ~cr0_pg)
           => /\ pc = "loaded"
              /\ cr3 = page_directory
              /\ \A v \in IdentityRange : Mapped(mem, cr3, v) ]_vars

\* C13 witness: paging has just been enabled with CR3 at a directory that
\* maps the whole range.
C13_Witness ==
    /\ pc = "run"
    /\ calls = <<>>
    /\ cr0_pg
    /\ cr3 = page_directory
    /\ \A v \in IdentityRange : Mapped(mem, cr3, v)

\* C14: create_user_page_directory returns NULL when alloc_page has no frame
\* to give; otherwise it returns a directory in the frame alloc_page takes,
\* with entries 0..767 zero and entries 768..1023 equal to those the kernel
\* page_directory had when it was called.
C14_UserDirectory ==
    [][ Stepped("create_user_page_directory")
        => LET i   == FirstClear(mem)
               ret == LastCall'.ret
           IN  IF i = total_pages
               THEN ret = NULL
               ELSE /\ ret # NULL
                    /\ ret = memory_start + i * PAGE_SIZE
                    /\ \A k \in 0 .. 767 : Read(mem', ret + 4 * k) = 0
                    /\ \A k \in 768 .. PT_ENTRIES - 1 :
                           Read(mem', ret + 4 * k) = Read(mem, page_directory + 4 * k) ]_vars

\* C14 witness: a directory was created after a mapping was made in the upper
\* quarter of the kernel directory, and it carries that entry.
C14_Witness ==
    /\ Len(calls) = 2
    /\ calls[1].op = "map_page_with_directory"
    /\ calls[1].arg[1] = page_directory
    /\ calls[1].arg[2] = -1073741824
    /\ LastCall.op = "create_user_page_directory"
    /\ LastCall.ret # NULL
    /\ Present(Read(mem, LastCall.ret + 4 * 768))
    /\ Read(mem, LastCall.ret + 4 * 768) = Read(mem, page_directory + 4 * 768)

-----------------------------------------------------------------------------
(* The frame allocator and the heap together (SpecKernel) *)

\* memory maps that cover the kernel image and the memory behind it
KernelLists == {es \in BootLists : es[Len(es)].addr = 1069056 /\ es[1].type = MMAP_AVAILABLE}

InitKernel == InitWith(KernelLists, {MMAP_ENTRY_BYTES}, {FALSE}, {0})

\* boot up to init_physical_allocator, then calls on both allocators
NextKernel ==
    \/ parse_memory_map
    \/ init_physical_allocator
    \/ alloc_page
    \/ free_page
    \/ (Initialized /\ kmalloc)
    \/ (Initialized /\ kfree)

SpecKernel == InitKernel /\ [][NextKernel]_vars

\* C15: once init_physical_allocator has run, kmalloc and kfree change no bit
\* of the frame bitmap, and no call changes total_pages, bitmap_size_bytes or
\* memory_start.
C15_BitmapOwnedByFrameAllocator ==
    [][ Initialized
        => /\ (Stepped("kmalloc") \/ Stepped("kfree")) => UsedFrames(mem') = UsedFrames(mem)
           /\ total_pages' = total_pages
           /\ bitmap_size_bytes' = bitmap_size_bytes
           /\ memory_start' = memory_start ]_vars

\* C15 witness: with the allocator initialised, kmalloc has carved a block and
\* kfree has put one on the free list.
C15_Witness ==
    /\ Initialized
    /\ CallsWhere("kmalloc", "carved") # {}
    /\ CallsWhere("kfree", "pushed") # {}
    /\ CallsWhere("alloc_page", "found") # {}

-----------------------------------------------------------------------------
(* Frame allocator claims, continued (SpecFrame) *)

\* C16: free_page(addr) with addr outside
\* [memory_start, memory_start + total_pages * 4096) changes nothing; with
\* addr inside it clears the bit of index (addr - memory_start) / 4096 and
\* changes no other bit.
C16_FreePageInRangeOnly ==
    [][ Stepped("free_page")
        => LET addr == LastCall'.arg[1]
           IN  IF addr < memory_start \/ addr >= memory_start + total_pages * PAGE_SIZE
               THEN /\ mem' = mem
                    /\ UNCHANGED <<memory_start, total_pages, bitmap_size_bytes, page_bitmap>>
               ELSE /\ UsedFrames(mem')
                         = UsedFrames(mem) \ {(addr - memory_start) \div PAGE_SIZE}
                    /\ \A a \in DOMAIN mem' :
                           a # BitmapWord(page_bitmap, (addr - memory_start) \div PAGE_SIZE)
                           => (a \in DOMAIN mem /\ mem'[a] = mem[a])
                    /\ UNCHANGED <<memory_start, total_pages, bitmap_size_bytes, page_bitmap>> ]_vars

\* C16 witness: free_page has been called with an address below the arena,
\* with one past its end, and with one inside a frame that was in use.
C16_Witness ==
    /\ \E i \in CallsWhere("free_page", "out_of_range") : calls[i].arg[1] < memory_start
    /\ \E i \in CallsWhere("free_page", "out_of_range") :
           calls[i].arg[1] = memory_start + total_pages * PAGE_SIZE
    /\ \E i \in CallsWhere("free_page", "cleared") : calls[i].arg[1] % PAGE_SIZE # memory_start % PAGE_SIZE

-----------------------------------------------------------------------------
(* Heap claims about kfree (SpecHeap) *)

\* C17: every kmalloc (and alloc_page) call returns: none of the calls made
\* walks the free list forever.
C17_CallsTerminate ==
    /\ pc # "hung"
    /\ \A i \in 1 .. Len(calls) : calls[i].how # "hang"

\* C17 witness: with a block on the free list that is too small, kmalloc has
\* walked past it and carved a new block.
C17_Witness ==
    /\ Len(calls) >= 3
    /\ LastCall.op = "kmalloc"
    /\ LastCall.how = "carved"
    /\ FreeListBlocks # {}

\* whether the list from curr reaches NULL without meeting a block twice
RECURSIVE ListEnds(_, _, _)
ListEnds(m, curr, seen) ==
    IF curr = NULL THEN TRUE
    ELSE IF curr \in seen THEN FALSE
    ELSE ListEnds(m, Read(m, curr + 4), seen \cup {curr})

\* C18: when kfree is only given pointers kmalloc has returned, no block is
\* on the free list more than once and the free list has no cycle.
C18_NoDoubleFree == ListEnds(mem, free_list, {})

\* C18 witness: two different blocks are on the free list.
C18_Witness ==
    /\ Cardinality(FreeListBlocks) = 2
    /\ ListEnds(mem, free_list, {})

-----------------------------------------------------------------------------
(* Claims about the state init_physical_allocator leaves (SpecFrame) *)

\* init_physical_allocator has just run
JustInitialized == pc = "allocator" /\ calls = <<>>

\* frame i of the arena lies entirely inside one of the usable regions
InsideUsableRegion(i) ==
    \E r \in 1 .. Len(usable_memory_regions) :
        /\ usable_memory_regions[r].base <= memory_start + i * PAGE_SIZE
        /\ memory_start + (i + 1) * PAGE_SIZE
             <= usable_memory_regions[r].base + usable_memory_regions[r].length

\* C19: right after init_physical_allocator, every frame whose bit is clear
\* lies entirely inside one usable region; frames in holes and frames only
\* partly covered by a region have their bit set.
C19_FreeFramesAreUsable ==
    JustInitialized
    => \A i \in 0 .. total_pages - 1 :
           ~BITMAP_TEST(mem, page_bitmap, i) => InsideUsableRegion(i)

\* C19 witness: the arena has a hole between two regions; its frames are
\* marked used and the frames of the regions are free.
C19_Witness ==
    /\ JustInitialized
    /\ Len(usable_memory_regions) = 2
    /\ \E i \in 0 .. total_pages - 1 : ~InsideUsableRegion(i) /\ BITMAP_TEST(mem, page_bitmap, i)
    /\ \E i \in 0 .. total_pages - 1 : InsideUsableRegion(i) /\ ~BITMAP_TEST(mem, page_bitmap, i)
    /\ \A i \in 0 .. total_pages - 1 : ~BITMAP_TEST(mem, page_bitmap, i) => InsideUsableRegion(i)


-----------------------------------------------------------------------------
(* C20: the frames under the bitmap's own storage *)

\* a machine with 48 MiB of RAM reported as one available entry, from an
\* address that is a multiple of 4096 or from one 1 KiB above it: the bitmap
\* of its 12288 frames takes 1536 bytes
LargeLists ==
    { <<[addr |-> 4096, len |-> 50331648, type |-> MMAP_AVAILABLE]>>,
      <<[addr |-> 5120, len |-> 50331648, type |-> MMAP_AVAILABLE]>> }

InitLarge == InitWith(LargeLists, {MMAP_ENTRY_BYTES}, {FALSE}, {0})

\* boot of the 48 MiB machine up to init_physical_allocator, then
\* alloc_page / free_page
NextLarge ==
    \/ parse_memory_map
    \/ init_physical_allocator
    \/ alloc_page
    \/ free_page

SpecLarge == InitLarge /\ [][NextLarge]_vars

\* the frames of the grid that share a byte with
\* [page_bitmap, page_bitmap + bitmap_size_bytes)
BitmapFrames ==
    {i \in 0 .. total_pages - 1 :
        /\ memory_start + i * PAGE_SIZE < page_bitmap + bitmap_size_bytes
        /\ page_bitmap < memory_start + (i + 1) * PAGE_SIZE}

\* the calls of free_page made before call k on the frame with index i
FreedBefore(k, i) ==
    {j \in 1 .. k - 1 : calls[j].op = "free_page" /\ FreeIndex(calls[j].arg[1]) = i}

\* C20: right after init_physical_allocator every frame of the grid that
\* overlaps the bitmap's storage has its bit set, also when memory_start is
\* not a multiple of 4096; and alloc_page returns such a frame only after a
\* free_page on it
C20_BitmapFramesReserved ==
    /\ JustInitialized => \A i \in BitmapFrames : BITMAP_TEST(mem, page_bitmap, i)
    /\ Initialized =>
          \A k \in CallsWhere("alloc_page", "found") :
              FreeIndex(calls[k].ret) \in BitmapFrames => FreedBefore(k, FreeIndex(calls[k].ret)) # {}

\* init_physical_allocator has just run on a map whose memory_start is off
\* the page grid, and the bitmap's storage lies across two frames of the grid
C20_Witness ==
    /\ JustInitialized
    /\ memory_start % PAGE_SIZE # 0
    /\ Cardinality(BitmapFrames) = 2


-----------------------------------------------------------------------------
(* C21: the bounds of the arena for regions with 64-bit bases               *)
(* A uint64_t is kept as [page, off], the value page * 4096 + off with      *)
(* off < 4096; the values used stay below 2^43, so page fits an integer.    *)

Quad(page, off) == [page |-> page, off |-> off]

\* (uint32_t)q: the low 32 bits, that is the low 20 bits of the page number
Trunc32(q) == Quad(q.page % 1048576, q.off)

\* a < b
QuadLess(a, b) == a.page < b.page \/ (a.page = b.page /\ a.off < b.off)

\* a + b
QuadAdd(a, b) ==
    Quad(a.page + b.page + ((a.off + b.off) \div PAGE_SIZE), (a.off + b.off) % PAGE_SIZE)

\* (a - b) / PAGE_SIZE for b <= a
QuadSubDivPage(a, b) ==
    IF a.off >= b.off THEN a.page - b.page ELSE (a.page - b.page) - 1

\* a value below 2^32 as the word the model keeps it in (two's complement)
QuadWord(q) ==
    IF q.page < 524288 THEN q.page * PAGE_SIZE + q.off
    ELSE (q.page - 1048576) * PAGE_SIZE + q.off

\* lines 34-41: the loop over the regions, from region i on;
\* start is the uint32_t memory_start, end the uint64_t memory_end
RECURSIVE ArenaBounds(_, _, _, _)
ArenaBounds(regions, i, start, end) ==
    IF i > Len(regions) THEN [memory_start |-> start, memory_end |-> end]
    ELSE LET base     == regions[i].base
             first    == IF QuadLess(Trunc32(base), start) THEN Trunc32(base) ELSE start
             last     == QuadAdd(base, regions[i].length)
         IN  ArenaBounds(regions, i + 1, first, IF QuadLess(end, last) THEN last ELSE end)

\* lines 30-45 of init_physical_allocator: memory_start = 0xFFFFFFFF and
\* memory_end = 0 before the loop, total_pages and bitmap_size_bytes after it
\* (the quotient stays below 2^31 here, the conversion to uint32_t keeps it)
InitBounds(regions) ==
    LET b     == ArenaBounds(regions, 1, Quad(1048575, 4095), Quad(0, 0))
        total == QuadSubDivPage(b.memory_end, b.memory_start)
    IN  [memory_start |-> QuadWord(b.memory_start), total_pages |-> total,
         bitmap_size_bytes |-> (total + 7) \div 8]

\* usable regions a 64-bit machine may report: RAM at 1 MiB, RAM off the
\* page grid, RAM just below 4 GiB, RAM at 4 GiB and RAM above 4 GiB
WideChoices ==
    { [base |-> Quad(256, 0),        length |-> Quad(256, 0)],
      [base |-> Quad(1, 2048),       length |-> Quad(2, 2048)],
      [base |-> Quad(1048320, 0),    length |-> Quad(256, 0)],
      [base |-> Quad(1048576, 0),    length |-> Quad(1024, 0)],
      [base |-> Quad(1048578, 1024), length |-> Quad(4, 0)] }

\* lists of one to MaxWideRegions regions
WideLists == UNION {[1 .. k -> WideChoices] : k \in 1 .. MaxWideRegions}

\* parse_memory_map has stored a list of regions
InitWide ==
    /\ mbi = <<>>
    /\ junk = 0
    /\ mem = EmptyMem
    /\ usable_memory_regions \in WideLists
    /\ usable_region_count = Len(usable_memory_regions)
    /\ memory_start = 0
    /\ total_pages = 0
    /\ bitmap_size_bytes = 0
    /\ page_bitmap = NULL
    /\ page_directory = NULL
    /\ heap_current = KERNEL_HEAP_START
    /\ free_list = NULL
    /\ cr3 = 0
    /\ cr0_pg = FALSE
    /\ pc = "parsed"
    /\ calls = <<>>

\* init_physical_allocator up to line 45
init_bounds ==
    /\ pc = "parsed"
    /\ LET r == InitBounds(usable_memory_regions)
       IN  /\ memory_start' = r.memory_start
           /\ total_pages' = r.total_pages
           /\ bitmap_size_bytes' = r.bitmap_size_bytes
    /\ pc' = "bounds"
    /\ UNCHANGED <<mbi, junk, mem, usable_memory_regions, usable_region_count,
                   page_bitmap, page_directory, heap_current, free_list, cr3,
                   cr0_pg, calls>>

NextWide == init_bounds

SpecWide == InitWide /\ [][NextWide]_vars

\* the least base and the greatest end of the regions, as 64-bit values
MinBase ==
    CHOOSE b \in {usable_memory_regions[i].base : i \in 1 .. Len(usable_memory_regions)} :
        \A i \in 1 .. Len(usable_memory_regions) :
            ~QuadLess(usable_memory_regions[i].base, b)

MaxEnd ==
    CHOOSE e \in {QuadAdd(usable_memory_regions[i].base, usable_memory_regions[i].length) :
                    i \in 1 .. Len(usable_memory_regions)} :
        \A i \in 1 .. Len(usable_memory_regions) :
            ~QuadLess(e, QuadAdd(usable_memory_regions[i].base, usable_memory_regions[i].length))

\* C21: for regions with 64-bit bases and lengths, init_physical_allocator
\* leaves memory_start equal to the least base and total_pages equal to
\* (greatest end - least base) / 4096, nothing truncated and nothing wrapped
C21_BoundsNotTruncated ==
    pc = "bounds" =>
        /\ MinBase.page < 1048576
        /\ memory_start = QuadWord(MinBase)
        /\ total_pages = QuadSubDivPage(MaxEnd, MinBase)

\* the bounds were computed for a list that holds a region at or above 4 GiB
\* and a region below it
C21_Witness ==
    /\ pc = "bounds"
    /\ \E i \in 1 .. Len(usable_memory_regions) : usable_memory_regions[i].base.page >= 1048576
    /\ \E i \in 1 .. Len(usable_memory_regions) : usable_memory_regions[i].base.page < 1048576


-----------------------------------------------------------------------------
(* C22: the effect of one map_page_with_directory call *)

\* what the two-level walk finds for vaddr in pd: whether both entries are
\* present, and the table entry when they are
Resolution(m, pd, vaddr) ==
    [present |-> Mapped(m, pd, vaddr),
     entry   |-> IF Mapped(m, pd, vaddr) THEN TableEntry(m, pd, vaddr) ELSE 0]

\* the first addresses of the 1024 virtual pages that share vaddr's directory slot
SlotPages(vaddr) ==
    {(vaddr - (Low31(vaddr) % 4194304)) + k * PAGE_SIZE : k \in 0 .. PT_ENTRIES - 1}

\* the first address of vaddr's page
PageOf(vaddr) == vaddr - (Low31(vaddr) % PAGE_SIZE)

\* the virtual pages whose translation is compared across a call that maps
\* vaddr: the identity range, the pages callers map, the pages of vaddr's slot
ProbePages(vaddr) ==
    {v \in IdentityRange \cup MapVaddrs \cup SlotPages(vaddr) : PageOf(v) # PageOf(vaddr)}

\* C22: a map_page_with_directory(pd, vaddr, paddr, flags) call that has a
\* frame available changes the translation of exactly one virtual page:
\* vaddr's page then resolves in pd to paddr & ~0xFFF with flags | PAGE_PRESENT,
\* every other page of pd resolves as before, and one frame leaves the frame
\* allocator exactly when the directory slot of vaddr was not present
C22_MapsOnePage ==
    [][ ( /\ Stepped("map_page_with_directory")
          /\ (NeedsTable(mem, LastCall'.arg[1], LastCall'.arg[2]) => AllocPage(mem).how = "found") )
        => LET pd    == LastCall'.arg[1]
               vaddr == LastCall'.arg[2]
               paddr == LastCall'.arg[3]
               flags == LastCall'.arg[4]
           IN  /\ Resolution(mem', pd, vaddr) = [present |-> TRUE, entry |-> MakeEntry(paddr, flags)]
               /\ \A v \in ProbePages(vaddr) : Resolution(mem', pd, v) = Resolution(mem, pd, v)
               /\ UsedFrames(mem) \subseteq UsedFrames(mem')
               /\ Cardinality(UsedFrames(mem') \ UsedFrames(mem))
                     = (IF NeedsTable(mem, pd, vaddr) THEN 1 ELSE 0)
      ]_vars

\* a map_page_with_directory call has filled an empty directory slot with a
\* table in a frame it took from the allocator
C22_Witness ==
    /\ CallsWhere("map_page_with_directory", "new_table") # {}
    /\ Len(calls) = 1
    /\ Cardinality(UsedFrames(mem)) > Cardinality(ReservedFrames)


-----------------------------------------------------------------------------
(* The heap after a prelude: MaxScriptBlocks blocks allocated, then some or  *)
(* all of them freed in some order, then kmalloc / kfree calls              *)

ScriptSizes == {1, 9}

\* the heap state st after one more kmalloc(size)
AllocStep(st, size) ==
    LET r == KMalloc(st.mem, st.free_list, st.heap_current, size)
    IN  [mem |-> r.mem, free_list |-> r.free_list, heap_current |-> r.heap_current,
         calls |-> Append(st.calls, Call("kmalloc", <<size>>, r.ret, r.how))]

\* the heap state st after one more kfree(ptr)
FreeStep(st, ptr) ==
    LET r == KFree(st.mem, st.free_list, ptr)
    IN  [mem |-> r.mem, free_list |-> r.free_list, heap_current |-> st.heap_current,
         calls |-> Append(st.calls, Call("kfree", <<ptr>>, 0,
                                         IF ptr = NULL THEN "null" ELSE "pushed"))]

\* the pointers kmalloc returned in st that no kfree of st was given
Unfreed(st) ==
    {st.calls[i].ret : i \in {j \in 1 .. Len(st.calls) : st.calls[j].op = "kmalloc"}}
    \ {st.calls[i].arg[1] : i \in {j \in 1 .. Len(st.calls) : st.calls[j].op = "kfree"}}

\* what the next kfree of a prelude is given: a pointer not freed yet or
\* NULL, and NULL only once a kfree(NULL) was made
FreeChoices(st) ==
    IF st.calls[Len(st.calls)].op = "kfree" /\ st.calls[Len(st.calls)].arg[1] = NULL
    THEN {NULL}
    ELSE Unfreed(st) \cup {NULL}

\* the heap states after k calls of kmalloc from the initial heap
RECURSIVE AllocStates(_)
AllocStates(k) ==
    IF k = 0
    THEN {[mem |-> EmptyMem, free_list |-> NULL, heap_current |-> KERNEL_HEAP_START,
           calls |-> <<>>]}
    ELSE {AllocStep(st, size) : st \in AllocStates(k - 1), size \in ScriptSizes}

\* the heap states after MaxScriptBlocks calls of kmalloc and k calls of kfree
RECURSIVE FreeStates(_)
FreeStates(k) ==
    IF k = 0 THEN AllocStates(MaxScriptBlocks)
    ELSE UNION {{FreeStep(st, ptr) : ptr \in FreeChoices(st)} : st \in FreeStates(k - 1)}

\* the heap states a prelude leaves
Preludes == FreeStates(MaxScriptBlocks)

InitFit ==
    /\ mbi = <<>>
    /\ junk = 0
    /\ \E st \in Preludes :
           /\ mem = st.mem
           /\ free_list = st.free_list
           /\ heap_current = st.heap_current
           /\ calls = st.calls
    /\ usable_memory_regions = <<>>
    /\ usable_region_count = 0
    /\ memory_start = 0
    /\ total_pages = 0
    /\ bitmap_size_bytes = 0
    /\ page_bitmap = NULL
    /\ page_directory = NULL
    /\ cr3 = 0
    /\ cr0_pg = FALSE
    /\ pc = "heap"

NextFit ==
    \/ kmalloc
    \/ kfree

SpecFit == InitFit /\ [][NextFit]_vars


-----------------------------------------------------------------------------
(* C23: first fit *)

\* the free list of memory m from fl, as the sequence of its blocks
FreeSeq(m, fl) == FreeBlocks(m, fl, {})

\* the positions of the free list whose block has a stored size >= size
Fits(m, fl, size) ==
    {k \in 1 .. Len(FreeSeq(m, fl)) : ~ULess(Read(m, FreeSeq(m, fl)[k]), size)}

\* the sequence q without its element k
Without(q, k) == SubSeq(q, 1, k - 1) \o SubSeq(q, k + 1, Len(q))

\* C23: when some block of the free list has a stored size >= ALIGN8(size),
\* kmalloc(size) returns the first such block in list order, unlinks exactly
\* that block and keeps the order of the others, leaves the stored sizes as
\* they were and does not move heap_current
C23_FirstFit ==
    [][ ( /\ Stepped("kmalloc")
          /\ Fits(mem, free_list, ALIGN8(LastCall'.arg[1])) # {} )
        => LET before == FreeSeq(mem, free_list)
               fits   == Fits(mem, free_list, ALIGN8(LastCall'.arg[1]))
               k      == CHOOSE x \in fits : \A y \in fits : x <= y
           IN  /\ LastCall'.ret = before[k] + HEADER_SIZE
               /\ FreeSeq(mem', free_list') = Without(before, k)
               /\ \A j \in 1 .. Len(before) : Read(mem', before[j]) = Read(mem, before[j])
               /\ heap_current' = heap_current
      ]_vars

\* kmalloc(1) has just been served the 16-byte block freed before it, whole:
\* the block keeps its size and the free list is empty again
C23_Witness ==
    /\ Len(calls) = 3
    /\ calls[1] = Call("kmalloc", <<9>>, KERNEL_HEAP_START + HEADER_SIZE, "carved")
    /\ calls[2].op = "kfree" /\ calls[2].arg[1] = calls[1].ret
    /\ calls[3] = Call("kmalloc", <<1>>, calls[1].ret, "reused")
    /\ Read(mem, KERNEL_HEAP_START) = 16
    /\ free_list = NULL

-----------------------------------------------------------------------------
(* The heap alone with request sizes over the whole range of uint32_t *)

InitArena ==
    /\ mbi = <<>>
    /\ junk = 0
    /\ mem = EmptyMem
    /\ usable_memory_regions = <<>>
    /\ usable_region_count = 0
    /\ memory_start = 0
    /\ total_pages = 0
    /\ bitmap_size_bytes = 0
    /\ page_bitmap = NULL
    /\ page_directory = NULL
    /\ heap_current = KERNEL_HEAP_START
    /\ free_list = NULL
    /\ cr3 = 0
    /\ cr0_pg = FALSE
    /\ pc = "arena"
    /\ calls = <<>>

NextArena ==
    \/ kmalloc
    \/ kfree

SpecArena == InitArena /\ [][NextArena]_vars

\* the first address past the block a kmalloc call carved: the pointer it
\* returned plus the aligned size it was asked for
CarvedEnd(call) == Add32(call.ret, ALIGN8(call.arg[1]))

\* C24: for every sequence of kmalloc / kfree calls and every 32-bit request
\* size, heap_current never decreases and stays within
\* [KERNEL_HEAP_START, KERNEL_HEAP_END], and every block carved from the
\* cursor lies entirely inside [KERNEL_HEAP_START, KERNEL_HEAP_END)
C24_CursorBounded ==
    [][ /\ ~ULess(heap_current', heap_current)
        /\ ~ULess(heap_current', KERNEL_HEAP_START)
        /\ ~ULess(KERNEL_HEAP_END, heap_current')
        /\ (Stepped("kmalloc") /\ LastCall'.how = "carved") =>
              /\ ~ULess(LastCall'.ret - HEADER_SIZE, KERNEL_HEAP_START)
              /\ ~ULess(CarvedEnd(LastCall'), LastCall'.ret)
              /\ ~ULess(KERNEL_HEAP_END, CarvedEnd(LastCall'))
      ]_vars

\* a request of exactly the arena's size less one header was carved and the
\* cursor stands at KERNEL_HEAP_END
C24_Witness ==
    /\ CallsWhere("kmalloc", "carved") # {}
    /\ heap_current = KERNEL_HEAP_END


-----------------------------------------------------------------------------
(* C25: exhaustion of the arena *)

\* the arena from the cursor to KERNEL_HEAP_END cannot hold a header and
\* ALIGN8(size) bytes (the cursor being inside the arena)
NoRoom(size) ==
    \/ KERNEL_HEAP_END - heap_current < HEADER_SIZE
    \/ ULess((KERNEL_HEAP_END - heap_current) - HEADER_SIZE, ALIGN8(size))

\* C25: when no block of the free list has a stored size >= ALIGN8(size) and
\* the rest of the arena cannot hold a header plus ALIGN8(size) bytes,
\* kmalloc(size) returns NULL and leaves heap_current, the free list and every
\* block header as they were; a later request that fits still succeeds
C25_ExhaustionIsClean ==
    [][ ( /\ Stepped("kmalloc")
          /\ ~ULess(heap_current, KERNEL_HEAP_START)
          /\ ~ULess(KERNEL_HEAP_END, heap_current)
          /\ Fits(mem, free_list, ALIGN8(LastCall'.arg[1])) = {} )
        => /\ NoRoom(LastCall'.arg[1]) =>
                 /\ LastCall'.ret = NULL
                 /\ LastCall'.how = "exhausted"
                 /\ heap_current' = heap_current
                 /\ free_list' = free_list
                 /\ mem' = mem
           /\ (~NoRoom(LastCall'.arg[1]) /\ CallsWhere("kmalloc", "exhausted") # {}) =>
                 LastCall'.ret # NULL
      ]_vars

\* a request too large for the arena was refused and the next, smaller,
\* request was carved
C25_Witness ==
    \E k \in CallsWhere("kmalloc", "exhausted") :
        /\ k + 1 \in CallsWhere("kmalloc", "carved")
        /\ ULess(calls[k + 1].arg[1], calls[k].arg[1])


-----------------------------------------------------------------------------
(* C26: memory maps with more available entries than MAX_MEMORY_REGIONS *)

\* a memory map of n entries of 4 KiB, 8 KiB apart, all available except
\* entry j (none when j = 0)
LongEntries(n, j) ==
    [k \in 1 .. n |-> [addr |-> k * 8192, len |-> PAGE_SIZE,
                       type |-> IF k = j THEN 2 ELSE MMAP_AVAILABLE]]

\* maps of MAX_MEMORY_REGIONS - 1 to MaxLongEntries entries
LongLists ==
    {LongEntries(n, j) : n \in MAX_MEMORY_REGIONS - 1 .. MaxLongEntries, j \in 0 .. MaxLongEntries}

InitLong == InitWith(LongLists, {MMAP_ENTRY_BYTES}, {FALSE}, {0})

NextLong == parse_memory_map

SpecLong == InitLong /\ [][NextLong]_vars

\* the first n elements of q, all of q when it has fewer
FirstN(q, n) == SubSeq(q, 1, IF Len(q) < n THEN Len(q) ELSE n)

\* C26: usable_region_count never exceeds MAX_MEMORY_REGIONS and nothing is
\* stored past usable_memory_regions[31]: of a map with more than 32
\* available entries the first 32 in encounter order are stored, the rest
\* are dropped
C26_CapacityRespected ==
    /\ usable_region_count <= MAX_MEMORY_REGIONS
    /\ Len(usable_memory_regions) <= MAX_MEMORY_REGIONS
    /\ pc = "parsed"
       => \A es \in LongLists :
              mbi = MultibootBuffer(es, MMAP_ENTRY_BYTES, FALSE)
              => /\ usable_memory_regions = FirstN(AvailableRegions(es), MAX_MEMORY_REGIONS)
                 /\ usable_region_count = Len(usable_memory_regions)

\* a map with 34 available entries has been read: 32 regions are stored, the
\* last one is the 32nd entry of the map
C26_Witness ==
    /\ pc = "parsed"
    /\ mbi = MultibootBuffer(LongEntries(34, 0), MMAP_ENTRY_BYTES, FALSE)
    /\ usable_region_count = MAX_MEMORY_REGIONS
    /\ usable_memory_regions[MAX_MEMORY_REGIONS] = [base |-> 32 * 8192, length |-> PAGE_SIZE]


-----------------------------------------------------------------------------
(* C27: kfree *)

\* the calls before call i that returned or were given the pointer p
Events(i, p) ==
    {j \in 1 .. i - 1 : \/ (calls[j].op = "kmalloc" /\ calls[j].ret = p)
                        \/ (calls[j].op = "kfree" /\ calls[j].arg[1] = p)}

\* p is live before call i: the last call about it was the kmalloc that returned it
LiveAt(i, p) ==
    /\ p # NULL
    /\ Events(i, p) # {}
    /\ calls[CHOOSE j \in Events(i, p) : \A k \in Events(i, p) : k <= j].op = "kmalloc"

\* every kfree among the first n calls was given NULL or a live pointer
FreesWereLive(n) ==
    \A i \in 1 .. n : (calls[i].op = "kfree" /\ calls[i].arg[1] # NULL) => LiveAt(i, calls[i].arg[1])

\* two blocks of the free list of size 8 each lie next to each other
AdjacentFreePair(m, fl) ==
    \E a, b \in {FreeSeq(m, fl)[k] : k \in 1 .. Len(FreeSeq(m, fl))} :
        /\ Read(m, a) = 8
        /\ Read(m, b) = 8
        /\ b = a + HEADER_SIZE + 8

\* C27: kfree(p) for a live pointer p puts p's block at the head of the free
\* list, in front of the blocks freed before, and changes neither a block's
\* size nor heap_current; blocks are never merged: with only blocks smaller
\* than the request on the free list, adjacent or not, kmalloc carves from
\* the cursor; kfree(NULL) changes nothing
C27_FreePushesFront ==
    [][ /\ ( /\ Stepped("kfree")
             /\ LastCall'.arg[1] # NULL
             /\ FreesWereLive(Len(calls))
             /\ LiveAt(Len(calls) + 1, LastCall'.arg[1]) )
           => /\ free_list' = LastCall'.arg[1] - HEADER_SIZE
              /\ FreeSeq(mem', free_list') = <<free_list'>> \o FreeSeq(mem, free_list)
              /\ \A b \in CarvedBlocks : Read(mem', b) = Read(mem, b)
              /\ heap_current' = heap_current
        /\ ( /\ Stepped("kfree")
             /\ LastCall'.arg[1] = NULL )
           => /\ mem' = mem
              /\ free_list' = free_list
              /\ heap_current' = heap_current
        /\ ( /\ Stepped("kmalloc")
             /\ FreesWereLive(Len(calls))
             /\ Fits(mem, free_list, ALIGN8(LastCall'.arg[1])) = {} )
           => /\ LastCall'.how \in {"carved", "exhausted"}
              /\ LastCall'.how = "carved" => LastCall'.ret = heap_current + HEADER_SIZE
              /\ FreeSeq(mem', free_list') = FreeSeq(mem, free_list)
      ]_vars

\* blocks of 8 bytes were allocated and freed, and a request for 9 bytes (16
\* once aligned) has just been carved from the cursor while two adjacent free
\* blocks of 8 bytes stay on the list
C27_Witness ==
    /\ Len(calls) = 2 * MaxScriptBlocks + 1
    /\ LastCall.op = "kmalloc"
    /\ LastCall.arg[1] = 9
    /\ LastCall.how = "carved"
    /\ AdjacentFreePair(mem, free_list)
    /\ \A k \in 1 .. Len(FreeSeq(mem, free_list)) : Read(mem, FreeSeq(mem, free_list)[k]) = 8

-----------------------------------------------------------------------------
(* C28: the value 0 returned by alloc_page *)

\* C28: for every memory map, also one whose lowest usable region starts at
\* physical address 0, alloc_page returns 0 only when no bit of the bitmap
\* is clear, and never after having set a bit
C28_ZeroMeansExhausted ==
    [][ (Stepped("alloc_page") /\ LastCall'.ret = 0)
        => /\ FirstClear(mem) = total_pages
           /\ UsedFrames(mem') = UsedFrames(mem)
      ]_vars

\* on a map whose lowest usable region starts at 0, alloc_page has found
\* every bit set and returned 0
C28_Witness ==
    /\ Initialized
    /\ memory_start = 0
    /\ calls # <<>>
    /\ LastCall.op = "alloc_page"
    /\ LastCall.how = "exhausted"
    /\ LastCall.ret = 0

-----------------------------------------------------------------------------
(* C29: frames under the kernel image and the kernel heap *)

\* C29: after init_physical_allocator, and as long as free_page is given only
\* addresses alloc_page returned earlier, alloc_page never returns a frame
\* that overlaps the kernel image [1 MiB, kernel_end) or the heap arena
\* [kernel_end, kernel_end + 1 MiB)
C29_KernelFramesReserved ==
    LET issued(i) ==
            \E j \in 1 .. i - 1 :
                /\ calls[j].op = "alloc_page"
                /\ calls[j].how = "found"
                /\ calls[j].ret = calls[i].arg[1]
        overlaps(a, lo, hi) == a < hi /\ lo < a + PAGE_SIZE
    IN  ( /\ Initialized
          /\ \A i \in 1 .. Len(calls) : calls[i].op = "free_page" => issued(i) )
        => \A i \in CallsWhere("alloc_page", "found") :
               /\ ~overlaps(calls[i].ret, kernel_start, kernel_end)
               /\ ~overlaps(calls[i].ret, KERNEL_HEAP_START, KERNEL_HEAP_END)

\* alloc_page has handed out a frame on a machine whose memory map reports
\* the RAM the kernel is loaded in, and free_page was not called
C29_Witness ==
    /\ Initialized
    /\ CallsWhere("alloc_page", "found") # {}
    /\ \A i \in 1 .. Len(calls) : calls[i].op # "free_page"
    /\ \E i \in 1 .. Len(usable_memory_regions) :
           /\ usable_memory_regions[i].base < kernel_end
           /\ kernel_start < usable_memory_regions[i].base + usable_memory_regions[i].length

-----------------------------------------------------------------------------
(* C30: the kernel's page directory after boot *)

\* the directory slots of pd that hold a present entry
PresentSlots(m, pd) ==
    {i \in 0 .. PT_ENTRIES - 1 : Present(Read(m, pd + 4 * i))}

\* the frame that slot i of pd names as its page table
TableFrame(m, pd, i) ==
    LET entry == Read(m, pd + 4 * i) IN entry - (Low31(entry) % PAGE_SIZE)

\* C30: when setup_paging has completed, page_directory has exactly one
\* present entry, in slot 0; the page table that entry names is in a frame
\* other than the directory's own; and no virtual address outside [0, 4 MiB)
\* resolves through page_directory (tried on the pages of the slot after the
\* identity range, the pages of the slot of 3 GiB and the last page)
C30_KernelDirectory ==
    (pc = "run" /\ calls = <<>>)
    => /\ PresentSlots(mem, page_directory) = {0}
       /\ TableFrame(mem, page_directory, 0) # PageOf(page_directory)
       /\ \A v \in SlotPages(4194304) \cup SlotPages(-1073741824) \cup {-PAGE_SIZE} :
              ~Mapped(mem, page_directory, v)

\* setup_paging has completed, slot 0 of page_directory is present and its
\* table lies in a frame other than the directory's
C30_Witness ==
    /\ pc = "run"
    /\ calls = <<>>
    /\ 0 \in PresentSlots(mem, page_directory)
    /\ TableFrame(mem, page_directory, 0) # PageOf(page_directory)
    /\ IdentityMapped(mem, 4194304 - 1)

-----------------------------------------------------------------------------
(* C31: live allocations do not overlap *)

\* the kmalloc calls whose pointer is live after all the calls made so far,
\* each being the last kmalloc that returned its pointer
LiveCalls ==
    {i \in 1 .. Len(calls) :
        /\ calls[i].op = "kmalloc"
        /\ calls[i].ret # NULL
        /\ \A j \in i + 1 .. Len(calls) :
               ~(calls[j].op = "kfree" /\ calls[j].arg[1] = calls[i].ret)
        /\ \A j \in i + 1 .. Len(calls) :
               ~(calls[j].op = "kmalloc" /\ calls[j].ret = calls[i].ret)}

\* C31: when no pointer was handed to kfree twice without kmalloc returning
\* it in between and every request was of at most KERNEL_HEAP_SIZE bytes, the
\* byte ranges [p, p + size) of two live pointers have no byte in common and
\* no kmalloc call returned a pointer that was live when it was made
C31_LiveBlocksDisjoint ==
    ( /\ FreesWereLive(Len(calls))
      /\ \A i \in 1 .. Len(calls) :
             calls[i].op = "kmalloc" => ~ULess(KERNEL_HEAP_SIZE, calls[i].arg[1]) )
    => /\ \A i, j \in LiveCalls :
              i # j => \/ calls[i].ret + calls[i].arg[1] <= calls[j].ret
                       \/ calls[j].ret + calls[j].arg[1] <= calls[i].ret
       /\ \A i \in 1 .. Len(calls) :
              (calls[i].op = "kmalloc" /\ calls[i].ret # NULL) => ~LiveAt(i, calls[i].ret)

\* two pointers are live, one in a block taken back from the free list and
\* one in a block carved after it
C31_Witness ==
    /\ FreesWereLive(Len(calls))
    /\ \A i \in 1 .. Len(calls) :
           calls[i].op = "kmalloc" => ~ULess(KERNEL_HEAP_SIZE, calls[i].arg[1])
    /\ \E i, j \in LiveCalls :
           /\ i < j
           /\ calls[i].how = "reused"
           /\ calls[j].how = "carved"

-----------------------------------------------------------------------------
(* C32: kmalloc over every 32-bit size *)

\* C32: for every 32-bit size, a kmalloc(size) that returns a pointer other
\* than NULL returns a block whose stored size is >= size, and a kmalloc of
\* more bytes than the arena holds returns NULL
C32_BlockCoversRequest ==
    [][ Stepped("kmalloc")
        => /\ LastCall'.ret # NULL
              => ~ULess(Read(mem', LastCall'.ret - HEADER_SIZE), LastCall'.arg[1])
           /\ ULess(KERNEL_HEAP_SIZE, LastCall'.arg[1]) => LastCall'.ret = NULL
      ]_vars

\* a request of 2^31 - 1 bytes, more than the arena holds, was refused after
\* an earlier request had been served with a block of at least its size
C32_Witness ==
    /\ Len(calls) >= 2
    /\ LastCall = Call("kmalloc", <<Two31m1>>, NULL, "exhausted")
    /\ calls[1].op = "kmalloc"
    /\ calls[1].how = "carved"
    /\ ~ULess(Read(mem, calls[1].ret - HEADER_SIZE), calls[1].arg[1])

-----------------------------------------------------------------------------
(* C33: map_user_page *)

\* C33: after a map_user_page(pd, vaddr, paddr) that had a frame available
\* when it needed one, the directory entry of vaddr in pd and the table
\* entry of vaddr both carry PAGE_USER and PAGE_WRITABLE, whatever pd held
\* before, also when the directory slot had been filled by an earlier
\* map_page_with_directory call without PAGE_USER
C33_UserPageAccessible ==
    [][ ( /\ Stepped("map_user_page")
          /\ (NeedsTable(mem, LastCall'.arg[1], LastCall'.arg[2]) => AllocPage(mem).how = "found") )
        => LET user_pd == LastCall'.arg[1]
               vaddr   == LastCall'.arg[2]
               dir     == DirEntry(mem', user_pd, vaddr)
               tab     == TableEntry(mem', user_pd, vaddr)
           IN  /\ Present(dir) /\ Writable(dir) /\ UserOk(dir)
               /\ Present(tab) /\ Writable(tab) /\ UserOk(tab)
      ]_vars

\* map_user_page has mapped a page in a directory slot that was empty: both
\* entries carry the user and writable flags
C33_Witness ==
    /\ calls # <<>>
    /\ LastCall.op = "map_user_page"
    /\ LastCall.how = "new_table"
    /\ memory_start % PAGE_SIZE = 0
    /\ memory_start # 0
    /\ Writable(DirEntry(mem, LastCall.arg[1], LastCall.arg[2]))
    /\ UserOk(DirEntry(mem, LastCall.arg[1], LastCall.arg[2]))
    /\ Writable(TableEntry(mem, LastCall.arg[1], LastCall.arg[2]))
    /\ UserOk(TableEntry(mem, LastCall.arg[1], LastCall.arg[2]))

-----------------------------------------------------------------------------
(* Directories made after the kernel has mapped a page of its upper range *)

\* a machine with 64 KiB of RAM from 0x1000, all of it on the page grid
ShareLists == { <<[addr |-> 4096, len |-> 65536, type |-> MMAP_AVAILABLE]>> }

InitShare == InitWith(ShareLists, {MMAP_ENTRY_BYTES}, {FALSE}, {0})

\* the kernel's first call after boot: it maps the page at 3 GiB in page_directory
map_kernel_space ==
    /\ pc = "run"
    /\ calls = <<>>
    /\ \E paddr \in MapPaddrs :
           /\ mem' = MapPage(mem, page_directory, -1073741824, paddr, PAGE_WRITABLE)
           /\ calls' = Append(calls, Call("map_page_with_directory",
                  <<page_directory, -1073741824, paddr, PAGE_WRITABLE>>, 0,
                  IF NeedsTable(mem, page_directory, -1073741824) THEN "new_table" ELSE "existing"))
    /\ pc' = "shared"
    /\ UNCHANGED <<mbi, junk, usable_memory_regions, usable_region_count, memory_start,
                   total_pages, bitmap_size_bytes, page_bitmap, page_directory,
                   heap_current, free_list, cr3, cr0_pg>>

NextShare ==
    \/ parse_memory_map
    \/ init_physical_allocator
    \/ setup_paging_zero
    \/ setup_paging_identity
    \/ setup_paging_cr3
    \/ setup_paging_cr0
    \/ map_kernel_space
    \/ (pc = "shared" /\ map_page_with_directory)
    \/ (pc = "shared" /\ map_user_page)
    \/ (pc = "shared" /\ create_user_page_directory)

SpecShare == InitShare /\ [][NextShare]_vars

-----------------------------------------------------------------------------
(* C34: directories are isolated from each other *)

\* C34: a map_page_with_directory or map_user_page call on a directory pd
\* changes no translation seen through another directory: when pd was
\* returned by create_user_page_directory, page_directory and the other
\* directories returned resolve every address as before, also addresses from
\* 3 GiB up, and when pd is page_directory every directory returned does
C34_DirectoriesIsolated ==
    [][ (Stepped("map_page_with_directory") \/ Stepped("map_user_page"))
        => \A d \in Directories \ {LastCall'.arg[1]} :
               \A v \in IdentityRange \cup MapVaddrs \cup SlotPages(LastCall'.arg[2]) :
                   Resolution(mem', d, v) = Resolution(mem, d, v)
      ]_vars

\* a page has been mapped at 3 GiB in a directory returned by
\* create_user_page_directory after the kernel had mapped that page itself
C34_Witness ==
    /\ pc = "shared"
    /\ Len(calls) = 3
    /\ calls[2].op = "create_user_page_directory"
    /\ calls[2].ret # NULL
    /\ calls[3].op \in {"map_page_with_directory", "map_user_page"}
    /\ calls[3].arg[1] = calls[2].ret
    /\ calls[3].arg[2] = -1073741824
    /\ Mapped(mem, calls[2].ret, -1073741824)

=============================================================================
